---- MODULE Spec2Model ----
(***************************************************************************)
(* A model of pixelproxy's Controller (applications/pixelproxy/            *)
(* controller.go), of the storage namespace it drives (storage/storage.go) *)
(* and of the parts of the gopushpixels proxy manager and replay player    *)
(* that the Controller calls.  Every step that runs under the Controller's *)
(* mutex is one action; a method that takes the mutex twice (running(),    *)
(* then its body) is two actions, so that other goroutines interleave      *)
(* exactly where the code lets them.                                       *)
(***************************************************************************)
EXTENDS Naturals, Integers, Sequences, FiniteSets, Bags, TLC

VARIABLES
    isRunning,            \* Controller.isRunning
    ctx,                  \* Controller.ctx: "nil" or "run"
    systemControl,        \* Controller.systemControl: "nil" or "default"
    player,               \* Controller.player: 0 is nil, else the player's identity
    playerPaused,         \* the player's paused flag (replay.Player state)
    playingName,          \* Controller.playingName
    autoResumeListener,   \* Controller.autoResumeListener # nil
    recorder,             \* Controller.recorder # nil
    recorderListener,     \* Controller.recorderListener # nil
    recordingName,        \* Controller.recordingName
    hasProxyManagerLease, \* Controller.hasProxyManagerLease
    leases,               \* proxy.Manager: lease count per holder
    listeners,            \* proxy.Manager: the registered listeners
    files,                \* storage: the IDs of the stream files under files/
    defaultFile,          \* storage: the file files/default
    runPc,                \* where the goroutine in Controller.Run is
    runDefault,           \* Run's local defaultFileName
    cancelled,            \* Run's context is cancelled
    autoResumeDelay,      \* Controller.AutoResumeDelay, as configured
    pending,              \* the bag of web calls that passed running() and wait for the mutex
    runCall,              \* Run's own PlayFile, between its running() and its body
    ret,                  \* the error returned by the last call that returned
    arLast,               \* the auto-resume listener: time since the last packet it saw
    autoCall,             \* the auto-resume listener's ResumeFile, between running() and body
    registry,             \* discovery registry: per MAC, absent or the observed age
    proxies,              \* proxy.Manager: per real MAC, the proxy devices made for it
    wire,                 \* discovery datagrams broadcast for proxy devices, not yet received
    groupOffset,          \* the proxy_group_offset flag, as configured
    pkt,                  \* the last packet a proxy socket received, and what was done with it
    tmpFile,              \* storage: the temporary file of a SetDefault in progress
    sdPc,                 \* where the SetDefault in progress is
    sdName,               \* the name the SetDefault in progress writes
    sdOld,                \* what GetDefault returned when that SetDefault began
    heard,                \* the last datagram the discovery listener received, and its filtering
    recStat,              \* replay.Recorder: device metadata, events written, stored error
    now,                  \* the clock
    cb,                   \* the recorder listener's callback in progress, and where it is
    status,               \* what the last Status() call reported about the recording
    fatal,                \* a fatal recording error and whether a Status() call came since
    osControl,            \* the OS control that the step just taken invoked
    app,                  \* rootCmdRun: its position, its Context, its operations, its result
    sched,                \* replay.Player: its clock, its schedule and what it emitted
    router,               \* device.Router: its registrations and its last Route call
    util                  \* util.Sleeper and util.LoopUntil: timer, Context, position, result

vars == <<isRunning, ctx, systemControl, player, playerPaused, playingName,
          autoResumeListener, recorder, recorderListener, recordingName,
          hasProxyManagerLease, leases, listeners, files, defaultFile,
          runPc, runDefault, cancelled, autoResumeDelay, pending, runCall, ret,
          arLast, autoCall, registry, proxies, wire, groupOffset, pkt,
          tmpFile, sdPc, sdName, sdOld, heard, recStat, now, cb, status, fatal,
          osControl, app, sched, router, util>>

----------------------------------------------------------------------------
(* Bounds of the model *)

\* players that can hold a lease at the same time
MaxPlayers == 2
\* how many times SetProxyForwarding(false) may stack the controller's lease
MaxManualLeases == 2
\* events a recording holds
MaxEvents == 2
\* how far the clock runs
MaxTime == 2
\* the packets the router sends
MaxSends == 2
\* the player's clock, and the rounds it replays after the first
MaxClock == 5
MaxRounds == 1
MaxSleep == 2
MaxCalls == 2
\* concurrent callers of the control surface (HTTP handlers)
NumCallers == 1

----------------------------------------------------------------------------
(* Names and the storage namespace (storage/storage.go, storage/file.go) *)

\* A name is a sequence of characters.
NameA == <<"a">>
NameB == <<"b">>
NamePaddedA == <<" ", "a">>
EmptyName == <<>>

\* the names callers pass to RecordFile, PlayFile and DeleteFile
FileNames == {NameA}
\* the destination names callers pass to MergeFiles
MergeDests == {NameB}
\* the names callers pass to SetDefaultFile: none, and the stream of NameA
\* spelled with a leading blank
DefaultNames == {EmptyName, NamePaddedA}

\* files/default: whether it exists, and its content
NoFile == [exists |-> FALSE, content |-> EmptyName]
FileWith(content) == [exists |-> TRUE, content |-> content]

RECURSIVE TrimLeft(_)
TrimLeft(v) == IF v # <<>> /\ Head(v) = " " THEN TrimLeft(Tail(v)) ELSE v

RECURSIVE TrimRight(_)
TrimRight(v) ==
    IF v # <<>> /\ v[Len(v)] = " " THEN TrimRight(SubSeq(v, 1, Len(v) - 1)) ELSE v

\* sanitizeDisplayName: strings.TrimSpace
sanitizeDisplayName(v) == TrimRight(TrimLeft(v))

\* one rune of fileIDFromDisplayName: ASCII letters and digits stay, the rest
\* becomes _<hex>_
EscapeRune(r) == IF r = " " THEN "_20_" ELSE r

fileIDFromDisplayName(v) == [i \in 1..Len(v) |-> EscapeRune(v[i])]

\* makeFileForName: the storage entry (ID, hence path) a name resolves to
makeFileForName(name) == fileIDFromDisplayName(sanitizeDisplayName(name))

\* OpenReader succeeds iff the entry exists
OpenReaderOk(fs, name) == makeFileForName(name) \in fs

\* streamfile.Delete of the entry
StorageDeleteFile(fs, name) == fs \ {makeFileForName(name)}

\* the stream writer commits its entry when it is closed
WriterClose(fs, name) == fs \cup {makeFileForName(name)}

\* Storage.MergeFiles: every source must exist; the destination is committed
StorageMergeOk(fs, srcs) == \A i \in 1..Len(srcs) : makeFileForName(srcs[i]) \in fs
StorageMergeFiles(fs, dest, srcs) ==
    IF StorageMergeOk(fs, srcs) THEN fs \cup {makeFileForName(dest)} ELSE fs

\* Storage.GetDefault: a missing file reads as the empty name
GetDefault(df) == IF ~df.exists THEN EmptyName ELSE df.content

\* a SetDefault that canonicalises the name before writing it
SetDefault_Trimmed(df, name) ==
    IF name = EmptyName THEN NoFile ELSE FileWith(sanitizeDisplayName(name))

\* Storage.SetDefault: the empty name removes the file, any other name is
\* written as given
SetDefault(df, name) == IF name = EmptyName THEN NoFile ELSE FileWith(name)

----------------------------------------------------------------------------
(* The proxy manager's lease set and listener set (gopushpixels proxy.Manager) *)

\* the Controller itself, as a lease holder
CtrlHolder == 0
PlayerIds == 1..MaxPlayers
Holders == {CtrlHolder} \cup PlayerIds

AddLease(l, h) == [l EXCEPT ![h] = @ + 1]

\* a RemoveLease that drops the holder whatever its count
RemoveLease_All(l, h) == [l EXCEPT ![h] = 0]

RemoveLease(l, h) == [l EXCEPT ![h] = IF @ > 0 THEN @ - 1 ELSE 0]
ForwardingOf(l) == \A h \in DOMAIN l : l[h] = 0
Forwarding == ForwardingOf(leases)

RecorderTag == "recorder"
AutoResumeTag == "autoResume"
SnapshotTag == "snapshot"
AddListener(ls, x) == ls \cup {x}
RemoveListener(ls, x) == ls \ {x}

\* a leaser that takes its lease in the Controller's name
LeaserHolder_Shared(p) == CtrlHolder

\* proxyManagerPlaybackLeaser: a leaser is its own holder, one per player
LeaserHolder(p) == p
AcquirePlaybackLease(l, p) == AddLease(l, LeaserHolder(p))
ReleasePlaybackLease(l, p) == RemoveLease(l, LeaserHolder(p))

----------------------------------------------------------------------------
(* The Controller's mutex-protected state, as one record, and its methods   *)
(* as functions of it (controller.go)                                       *)

NoName == <<>>

\* the auto-resume listener has seen no packet
NoPacket == -1

\* a replay.Recorder that has recorded nothing
NoRecStat == [devices |-> <<>>, events |-> <<>>, err |-> FALSE, start |-> 0]

\* the state a method sees when it holds the mutex
Cur ==
    [player |-> player, playerPaused |-> playerPaused, playingName |-> playingName,
     autoResumeListener |-> autoResumeListener,
     recorder |-> recorder, recorderListener |-> recorderListener,
     recordingName |-> recordingName,
     leases |-> leases, listeners |-> listeners, files |-> files,
     arLast |-> arLast, recStat |-> recStat, sched |-> sched]

\* the state a method leaves when it releases the mutex
Commit(s) ==
    /\ player' = s.player
    /\ playerPaused' = s.playerPaused
    /\ playingName' = s.playingName
    /\ autoResumeListener' = s.autoResumeListener
    /\ recorder' = s.recorder
    /\ recorderListener' = s.recorderListener
    /\ recordingName' = s.recordingName
    /\ leases' = s.leases
    /\ listeners' = s.listeners
    /\ files' = s.files
    /\ arLast' = s.arLast
    /\ recStat' = s.recStat
    /\ sched' = s.sched

TaskUnchanged ==
    UNCHANGED <<player, playerPaused, playingName, autoResumeListener, recorder,
                recorderListener, recordingName, leases, listeners, files, arLast,
                recStat, sched>>

\* the playback_max_lag_age flag, in ticks of the clock
PlaybackMaxLagAge == 1

\* a player built with another lag limit than the flag's
PlayerMaxLagAge_Double == 2

\* Player.MaxLagAge as PlayFile sets it, line 472
PlayerMaxLagAge == PlaybackMaxLagAge

\* the offsets of the events of the stream that is played, in stored order
StreamOffsets == <<0, 1, 3>>

\* a scheduler that takes the second stored event before the first
EventAt_Swapped(k) == IF k = 1 THEN 2 ELSE IF k = 2 THEN 1 ELSE k

\* the event the scheduler takes at its k-th turn of a round: metadata order
EventAt(k) == k

\* no player was started: the scheduler's position (pc, next, round), its
\* streamStart, when its pause began, what it emitted and dropped this round,
\* and, for the round, when it began and how long it was paused
NoSched == [pc |-> "none", streamStart |-> 0, next |-> 1, round |-> 0, pauseStart |-> 0,
            emitted |-> <<>>, dropped |-> {}, roundStart |-> 0, pausedTotal |-> 0]

\* Play, steps 2 and 3: streamStart = now, round = 0, the scheduler starts
SchedulerPlay == [NoSched EXCEPT !.pc = "playing", !.streamStart = now, !.roundStart = now]

\* Pause: suspends the scheduler
SchedulerPause(sc) ==
    IF sc.pc = "playing" THEN [sc EXCEPT !.pc = "paused", !.pauseStart = now] ELSE sc

\* a Resume that leaves streamStart as it was
SchedulerResume_NoShift(sc) ==
    IF sc.pc = "paused" THEN [sc EXCEPT !.pc = "playing"] ELSE sc

\* Resume: the paused interval is added to streamStart
SchedulerResume(sc) ==
    IF sc.pc = "paused"
    THEN [sc EXCEPT !.pc = "playing", !.streamStart = @ + (now - sc.pauseStart)]
    ELSE sc

\* replay.Player.Play: takes the playback lease and starts unpaused
PlayerPlay(s, p) ==
    [s EXCEPT !.leases = AcquirePlaybackLease(@, p), !.playerPaused = FALSE,
              !.sched = SchedulerPlay]

\* replay.Player.Stop: releases the playback lease
PlayerStop(s) ==
    [s EXCEPT !.leases = ReleasePlaybackLease(@, s.player), !.playerPaused = FALSE,
              !.sched = NoSched]

\* replay.Player.Pause and Resume
PlayerPause(s) == [s EXCEPT !.playerPaused = TRUE, !.sched = SchedulerPause(@)]
PlayerResume(s) == [s EXCEPT !.playerPaused = FALSE, !.sched = SchedulerResume(@)]

\* replay.Recorder.Start: the stream begins now
RecorderStart == [NoRecStat EXCEPT !.start = now]

\* replay.Recorder.Stop: closes the stream writer, which commits the entry
RecorderStop(s) == [s EXCEPT !.files = WriterClose(@, s.recordingName)]

\* a first block that stops the player and keeps the field
StopPlayerBlock_KeepPlayer(s) ==
    IF s.player # 0 THEN PlayerStop(s) ELSE s

\* stopTaskLocked, its four blocks in order
StopPlayerBlock(s) ==
    IF s.player # 0
    THEN [PlayerStop(s) EXCEPT !.player = 0, !.playingName = NoName]
    ELSE s

StopAutoResumeBlock(s) ==
    IF s.autoResumeListener
    THEN [s EXCEPT !.listeners = RemoveListener(@, AutoResumeTag),
                   !.autoResumeListener = FALSE, !.arLast = NoPacket]
    ELSE s

StopRecorderListenerBlock(s) ==
    IF s.recorderListener
    THEN [s EXCEPT !.listeners = RemoveListener(@, RecorderTag),
                   !.recorderListener = FALSE]
    ELSE s

StopRecorderBlock(s) ==
    IF s.recorder
    THEN [RecorderStop(s) EXCEPT !.recorder = FALSE, !.recordingName = NoName,
                                 !.recStat = NoRecStat]
    ELSE s

stopTaskLocked(s) ==
    StopRecorderBlock(StopRecorderListenerBlock(StopAutoResumeBlock(StopPlayerBlock(s))))

\* a leaser that no lease refers to: the identity of a newly allocated player
FreePlayerIds(s) == {p \in PlayerIds : s.leases[p] = 0 /\ p # s.player}
NewPlayer(s) == CHOOSE p \in FreePlayerIds(s) : \A q \in FreePlayerIds(s) : p <= q

\* RecordFile that does not stop the current task first
RecordFileLocked_NoStop(s, name, opened) ==
    IF ~opened THEN s
    ELSE [s EXCEPT !.recorder = TRUE, !.recorderListener = TRUE,
                   !.recordingName = name, !.recStat = RecorderStart,
                   !.listeners = AddListener(@, RecorderTag)]

\* RecordFile, under the mutex; opened is whether OpenWriter succeeded
RecordFileLocked(s, name, opened) ==
    LET s1 == stopTaskLocked(s) IN
    IF ~opened THEN s1
    ELSE [s1 EXCEPT !.recorder = TRUE, !.recorderListener = TRUE,
                    !.recordingName = name, !.recStat = RecorderStart,
                    !.listeners = AddListener(@, RecorderTag)]

\* PlayFile, lines 459-478, under the mutex, after the current task was
\* stopped: open the stream and play it
PlayFileOpenLocked(s1, name) ==
    IF ~OpenReaderOk(s1.files, name) THEN s1
    ELSE LET p == NewPlayer(s1) IN
         PlayerPlay([s1 EXCEPT !.player = p, !.playingName = name], p)

\* PlayFile, under the mutex: stop the current task, then open and play
PlayFileLocked(s, name) == PlayFileOpenLocked(stopTaskLocked(s), name)

\* PauseFile, under the mutex; delayOn is AutoResumeDelay > 0
PauseFileLocked(s, delayOn) ==
    LET s1 == IF s.player # 0 THEN PlayerPause(s) ELSE s IN
    IF ~s1.autoResumeListener /\ delayOn
    THEN [s1 EXCEPT !.autoResumeListener = TRUE, !.arLast = NoPacket,
                    !.listeners = AddListener(@, AutoResumeTag)]
    ELSE s1

\* ResumeFile, under the mutex
ResumeFileLocked(s) ==
    LET s1 == StopAutoResumeBlock(s) IN
    IF s1.player # 0 THEN PlayerResume(s1) ELSE s1

\* DeleteFile, under the mutex
DeleteFileLocked(s, name) ==
    LET s1 == IF s.recorder /\ s.recordingName = name THEN stopTaskLocked(s) ELSE s
        s2 == IF s1.player # 0 /\ s1.playingName = name THEN stopTaskLocked(s1) ELSE s1
    IN  [s2 EXCEPT !.files = StorageDeleteFile(@, name)]

----------------------------------------------------------------------------
(* Callers *)

\* who calls a guarded method: the goroutine in Run (its own PlayFile), an
\* HTTP handler, or the auto-resume listener (OnDelay calls ResumeFile)
RunCaller == "run"
WebCaller == "web"
AutoCaller == "auto"
Callers == {RunCaller, WebCaller, AutoCaller}

NoCall == [op |-> "none", name |-> NoName]
Call(op, name) == [op |-> op, name |-> name]

\* no OS control was invoked
NoControl == "none"

ErrNil == "nil"
ErrNotRunning == "errNotRunning"
ErrOther == "err"
Panic == "panic"

\* a running() that does not look at isRunning
running_Always == TRUE

\* Controller.running
running == isRunning

\* the values of the playback_auto_resume_delay flag: off (the default) and on
AutoResumeDelays == {0, 1}

\* the methods that start with "if !ctrl.running() { return errNotRunning }"
NamedOps == {"RecordFile", "PlayFile", "DeleteFile"}
PlainOps == {"PauseFile", "ResumeFile", "Stop", "ListFiles"}
GuardedCalls ==
    {Call(op, n) : op \in NamedOps, n \in FileNames}
    \cup {Call(op, NoName) : op \in PlainOps}
    \cup {Call("SetDefaultFile", n) : n \in DefaultNames}

\* every call that can wait for the mutex
Calls ==
    GuardedCalls
    \cup {Call("PlayFile", n) : n \in DefaultNames \ {EmptyName}}
    \cup {Call("Shutdown", NoName)}

\* caller c is between the running() check and the body of call
InFlight(c, call) ==
    CASE c = RunCaller -> runCall = call
      [] c = AutoCaller -> autoCall = call
      [] OTHER -> BagIn(call, pending)

\* caller c leaves call
Done(c, call) ==
    CASE c = RunCaller -> runCall' = NoCall /\ UNCHANGED <<pending, autoCall>>
      [] c = AutoCaller -> autoCall' = NoCall /\ UNCHANGED <<pending, runCall>>
      [] OTHER -> pending' = pending (-) SetToBag({call}) /\ UNCHANGED <<runCall, autoCall>>

\* the variables no method of the Controller or of the storage touches
\* the clock, the recorder listener's callback and the Status() reports
AsideUnchanged == UNCHANGED <<now, cb, status, fatal, app, router, util>>

NetUnchanged ==
    /\ UNCHANGED <<registry, proxies, wire, groupOffset, pkt, tmpFile, sdPc, sdName, sdOld,
                   heard>>
    /\ AsideUnchanged

OtherUnchanged ==
    /\ NetUnchanged
    /\ osControl' = NoControl

RunUnchanged == UNCHANGED <<isRunning, ctx, systemControl, runPc, runDefault, cancelled>>

----------------------------------------------------------------------------
(* Devices, discovery headers and the default file's temporary (values) *)

Mac(pre, suf) == [pre |-> pre, suf |-> suf]

\* proxy.AddressRegistry.Prefix as rootCmdRun sets it
ProxyPrefix == "E1:2E:C7"

\* the MAC of the proxy device of a device with MAC m
ProxyMac(m) == Mac(ProxyPrefix, m.suf)

\* the real devices on the network, and every MAC a discovery datagram carries
Device1 == Mac("00:11:22", "33:44:55")
Device2 == Mac("00:11:22", "33:44:56")
RealMacs == {Device1, Device2}
Macs == RealMacs \cup {ProxyMac(m) : m \in RealMacs}

\* a MAC that is not in the registry
Absent == -1

\* the values of the proxy_group_offset flag: the default and another
GroupOffsets == {0, 1}

\* no packet has been received on a proxy socket
NoPkt == [seen |-> FALSE, dev |-> Mac("", ""), sent |-> FALSE, forwarded |-> FALSE, to |-> {}]

\* the discovery listener has received no datagram
NoHeard == [seen |-> FALSE, mac |-> Mac("", ""), accepted |-> FALSE]

\* the background operations of rootCmdRun
Operations == {"broadcast", "listener", "web"}

\* rootCmdRun has not begun
NoApp == [pc |-> "init", cancelled |-> FALSE, ops |-> [o \in Operations |-> "none"],
          closed |-> FALSE, errorCount |-> 0, appErr |-> FALSE, failure |-> "none"]

\* the error of a Route call that found no device
ErrNoRoute == "no route"

\* no device ID
NoId == ""

\* a (group, controller) ordinal, and device.InvalidOrdinal()
Ordinal(g, c) == [group |-> g, controller |-> c]
InvalidOrdinal == Ordinal(-1, -1)
IsValid(ord) == ord.group >= 0 /\ ord.controller >= 0

\* an empty router over an empty registry, before any Route call
NoRouter == [reg |-> <<>>, sent |-> <<>>,
             call |-> [by |-> "none", ord |-> InvalidOrdinal, id |-> NoId],
             target |-> NoId, ret |-> ErrNil]

\* the error of a cancelled Context (context.Canceled)
ErrCanceled == "context canceled"

\* the two Contexts a Sleep may be given
Contexts == {1, 2}

\* a zero Sleeper (no timer), no Context cancelled, no call in progress
NoUtil == [t |-> "nil", C |-> 0, armed |-> 0, elapsed |-> 0, done |-> {},
           pc |-> "idle", c |-> 0, d |-> 0, ret |-> "none", waited |-> 0,
           owner |-> "none", lpc |-> "none", calls |-> 0,
           fnErr |-> ErrNil, pendingRet |-> ErrNil, out |-> "none",
           startedCancelled |-> FALSE, cancelledInFirst |-> FALSE,
           lateCall |-> FALSE, closed |-> "none",
           how |-> "none", prev |-> "none"]

\* the recorder listener is not being called
NoCallback == [pc |-> "idle", dev |-> Mac("", "")]

\* Status() has not been called
NoStatus == [asked |-> FALSE, recording |-> FALSE, error |-> FALSE]

\* nothing of the network side has happened, no SetDefault is in progress
IdleNet ==
    /\ arLast = NoPacket
    /\ autoCall = NoCall
    /\ registry = [m \in Macs |-> Absent]
    /\ proxies = [m \in Macs |-> <<>>]
    /\ wire = {}
    /\ pkt = NoPkt
    /\ heard = NoHeard
    /\ recStat = NoRecStat
    /\ now = 0
    /\ cb = NoCallback
    /\ status = NoStatus
    /\ fatal = "none"
    /\ osControl = NoControl
    /\ app = NoApp
    /\ sched = NoSched
    /\ router = NoRouter
    /\ util = NoUtil

IdleSetDefault ==
    /\ tmpFile = NoFile
    /\ sdPc = "idle"
    /\ sdName = EmptyName
    /\ sdOld = EmptyName

----------------------------------------------------------------------------
(* Init: the Controller as rootCmdRun constructs it, over a prepared storage *)

InitCtrl ==
    /\ IdleNet
    /\ IdleSetDefault
    /\ isRunning = FALSE
    /\ ctx = "nil"
    /\ systemControl = "nil"
    /\ player = 0
    /\ playerPaused = FALSE
    /\ playingName = NoName
    /\ autoResumeListener = FALSE
    /\ recorder = FALSE
    /\ recorderListener = FALSE
    /\ recordingName = NoName
    /\ hasProxyManagerLease = FALSE
    /\ leases = [h \in Holders |-> 0]
    /\ files \in SUBSET {makeFileForName(NameA)}
    /\ defaultFile \in {NoFile, FileWith(NamePaddedA)}
    /\ runPc = "stopped"
    /\ runDefault = EmptyName
    /\ cancelled = FALSE
    /\ autoResumeDelay \in AutoResumeDelays
    /\ pending = EmptyBag
    /\ runCall = NoCall
    /\ ret = ErrNil

\* the proxy_group_offset flag at its default, snapshots disabled
Init ==
    /\ InitCtrl
    /\ groupOffset = 0
    /\ listeners = {}

----------------------------------------------------------------------------
(* Controller.Run *)

\* Run, lines 94-98: load the default file name; an I/O error ends Run
RunLoad ==
    /\ runPc = "stopped"
    /\ \/ /\ runPc' = "loaded"
          /\ runDefault' = GetDefault(defaultFile)
       \/ UNCHANGED <<runPc, runDefault>>
    /\ cancelled' = FALSE
    /\ UNCHANGED <<isRunning, ctx, systemControl, hasProxyManagerLease, defaultFile, autoResumeDelay,
                   pending, runCall, autoCall, ret>>
    /\ TaskUnchanged
    /\ OtherUnchanged

\* Run, lines 100-115: mark running, under the mutex
RunMark ==
    /\ runPc = "loaded"
    /\ ~isRunning
    /\ isRunning' = TRUE
    /\ ctx' = "run"
    /\ systemControl' = "default"
    /\ Commit(stopTaskLocked(Cur))
    /\ runPc' = IF runDefault # EmptyName THEN "started" ELSE "waiting"
    /\ UNCHANGED <<hasProxyManagerLease, defaultFile, autoResumeDelay, runDefault, cancelled,
                   pending, runCall, autoCall, ret>>
    /\ OtherUnchanged

\* a Run that never plays the default file
RunPlayDefault_Skip ==
    /\ runPc = "started"
    /\ runPc' = "waiting"
    /\ runDefault' = EmptyName
    /\ UNCHANGED <<isRunning, ctx, systemControl, hasProxyManagerLease, defaultFile,
                   autoResumeDelay, cancelled, pending, runCall, autoCall, ret>>
    /\ TaskUnchanged
    /\ OtherUnchanged

\* Run, line 136: PlayFile on the default file, up to its running() check
RunPlayDefault ==
    /\ runPc = "started"
    /\ IF running
       THEN /\ runCall' = Call("PlayFile", runDefault)
            /\ runPc' = "playing"
       ELSE /\ runPc' = "waiting"
            /\ UNCHANGED runCall
    /\ runDefault' = EmptyName
    /\ UNCHANGED <<isRunning, ctx, systemControl, hasProxyManagerLease, defaultFile, autoResumeDelay,
                   cancelled, pending, autoCall, ret>>
    /\ TaskUnchanged
    /\ OtherUnchanged

\* the Context passed to Run is cancelled
Cancel ==
    /\ runPc # "stopped"
    /\ ~cancelled
    /\ cancelled' = TRUE
    /\ UNCHANGED <<isRunning, ctx, systemControl, hasProxyManagerLease, defaultFile, autoResumeDelay,
                   runPc, runDefault, pending, runCall, autoCall, ret>>
    /\ TaskUnchanged
    /\ OtherUnchanged

\* Run, lines 142-143 and the deferred function of lines 118-131
RunExit ==
    /\ runPc = "waiting"
    /\ cancelled
    /\ Commit(stopTaskLocked([Cur EXCEPT !.leases = RemoveLease(@, CtrlHolder)]))
    /\ ctx' = "nil"
    /\ isRunning' = FALSE
    /\ runPc' = "stopped"
    /\ runDefault' = EmptyName
    /\ cancelled' = FALSE
    /\ UNCHANGED <<systemControl, hasProxyManagerLease, defaultFile, autoResumeDelay, pending, runCall, autoCall, ret>>
    /\ OtherUnchanged

----------------------------------------------------------------------------
(* The control surface (web.ControllerProxy) *)

\* the first lines of every guarded method: running(), which takes and
\* releases the mutex, and the early return
Enter(call) ==
    /\ BagCardinality(pending) < NumCallers
    /\ IF running
       THEN /\ pending' = pending (+) SetToBag({call})
            /\ UNCHANGED ret
       ELSE /\ ret' = ErrNotRunning
            /\ UNCHANGED pending
    /\ UNCHANGED <<hasProxyManagerLease, defaultFile, autoResumeDelay, runCall, autoCall>>
    /\ RunUnchanged
    /\ TaskUnchanged
    /\ OtherUnchanged

\* after the body of a call by c: Run's own PlayFile returns into Run
Leave(c, call) ==
    /\ Done(c, call)
    /\ runPc' = IF c = RunCaller THEN "waiting" ELSE runPc
    /\ UNCHANGED <<isRunning, ctx, systemControl, runDefault, cancelled,
                   hasProxyManagerLease, defaultFile, autoResumeDelay>>
    /\ NetUnchanged

Return(c, call) ==
    /\ Leave(c, call)
    /\ osControl' = NoControl

\* RecordFile, lines 375-415
RecordFileBody(c, call) ==
    /\ call.op = "RecordFile"
    /\ InFlight(c, call)
    /\ \E opened \in BOOLEAN :
          /\ Commit(RecordFileLocked(Cur, call.name, opened))
          /\ ret' = IF opened THEN ErrNil ELSE ErrOther
    /\ Return(c, call)

\* PlayFile, lines 454-480
PlayFileBody(c, call) ==
    /\ call.op = "PlayFile"
    /\ InFlight(c, call)
    /\ Commit(PlayFileLocked(Cur, call.name))
    /\ ret' = IF OpenReaderOk(stopTaskLocked(Cur).files, call.name)
              THEN ErrNil ELSE ErrOther
    /\ Return(c, call)

\* PauseFile, lines 490-512
PauseFileBody(c, call) ==
    /\ call.op = "PauseFile"
    /\ InFlight(c, call)
    /\ Commit(PauseFileLocked(Cur, autoResumeDelay > 0))
    /\ ret' = ErrNil
    /\ Return(c, call)

\* ResumeFile, lines 522-536
ResumeFileBody(c, call) ==
    /\ call.op = "ResumeFile"
    /\ InFlight(c, call)
    /\ Commit(ResumeFileLocked(Cur))
    /\ ret' = ErrNil
    /\ Return(c, call)

\* Stop, lines 439-444
StopBody(c, call) ==
    /\ call.op = "Stop"
    /\ InFlight(c, call)
    /\ Commit(stopTaskLocked(Cur))
    /\ ret' = ErrNil
    /\ Return(c, call)

\* DeleteFile, lines 546-557
DeleteFileBody(c, call) ==
    /\ call.op = "DeleteFile"
    /\ InFlight(c, call)
    /\ Commit(DeleteFileLocked(Cur, call.name))
    /\ ret' = ErrNil
    /\ Return(c, call)

\* SetDefaultFile, lines 609-614: Storage.SetDefault, which may fail and then
\* leaves files/default as it was
SetDefaultFileBody(c, call) ==
    /\ call.op = "SetDefaultFile"
    /\ InFlight(c, call)
    /\ \/ /\ defaultFile' = SetDefault(defaultFile, call.name)
          /\ ret' = ErrNil
       \/ /\ defaultFile' = defaultFile
          /\ ret' = ErrOther
    /\ Done(c, call)
    /\ UNCHANGED <<hasProxyManagerLease, autoResumeDelay>>
    /\ RunUnchanged
    /\ TaskUnchanged
    /\ OtherUnchanged

\* ListFiles, lines 229-286: reads the storage only
ListFilesBody(c, call) ==
    /\ call.op = "ListFiles"
    /\ InFlight(c, call)
    /\ ret' \in {ErrNil, ErrOther}
    /\ Done(c, call)
    /\ UNCHANGED <<hasProxyManagerLease, defaultFile, autoResumeDelay>>
    /\ RunUnchanged
    /\ TaskUnchanged
    /\ OtherUnchanged

\* MergeFiles, lines 419-429: no running() check and no mutex
MergeFiles(dest, srcs) ==
    /\ IF Len(srcs) = 0
       THEN /\ ret' = ErrOther
            /\ UNCHANGED files
       ELSE /\ files' = StorageMergeFiles(files, dest, srcs)
            /\ ret' = IF StorageMergeOk(files, srcs) THEN ErrNil ELSE ErrOther
    /\ UNCHANGED <<player, playerPaused, playingName, autoResumeListener, recorder,
                   recorderListener, recordingName, recStat, sched, leases, listeners, arLast,
                   hasProxyManagerLease, defaultFile, autoResumeDelay, pending, runCall, autoCall>>
    /\ RunUnchanged
    /\ OtherUnchanged

\* SetProxyForwarding, lines 619-635: one step under the mutex
SetProxyForwarding(forward) ==
    /\ forward \/ leases[CtrlHolder] < MaxManualLeases
    /\ leases' = IF forward THEN RemoveLease(leases, CtrlHolder)
                 ELSE AddLease(leases, CtrlHolder)
    /\ hasProxyManagerLease' = ~forward
    /\ ret' = ErrNil
    /\ UNCHANGED <<player, playerPaused, playingName, autoResumeListener, recorder,
                   recorderListener, recordingName, listeners, files, arLast, recStat, sched,
                   defaultFile,
                   autoResumeDelay, pending, runCall, autoCall>>
    /\ RunUnchanged
    /\ OtherUnchanged

\* the OS control of Shutdown, lines 658-661, through ctrl.systemControl
SystemControlResults == IF systemControl = "nil" THEN {Panic} ELSE {ErrNil, ErrOther}

\* lines 658-661: ctrl.systemControl.Restart when restart, else .Shutdown;
\* through a nil ctrl.systemControl neither is reached
SystemControlInvoke(restart) ==
    /\ ret' \in SystemControlResults
    /\ osControl' = IF systemControl = "nil" THEN NoControl
                    ELSE IF restart THEN "restart" ELSE "shutdown"

\* Shutdown, lines 651-661, up to the running() check of its Stop; when Stop
\* returns errNotRunning the OS control follows at once
ShutdownEnter(restart) ==
    /\ BagCardinality(pending) < NumCallers
    /\ IF running
       THEN /\ pending' = pending (+) SetToBag({Call("Shutdown", NoName)})
            /\ UNCHANGED ret
            /\ osControl' = NoControl
       ELSE /\ SystemControlInvoke(restart)
            /\ UNCHANGED pending
    /\ UNCHANGED <<hasProxyManagerLease, defaultFile, autoResumeDelay, runCall, autoCall>>
    /\ RunUnchanged
    /\ TaskUnchanged
    /\ NetUnchanged

\* Shutdown: the locked part of its Stop, then the OS control
ShutdownBody(c, call, restart) ==
    /\ call.op = "Shutdown"
    /\ InFlight(c, call)
    /\ Commit(stopTaskLocked(Cur))
    /\ SystemControlInvoke(restart)
    /\ Leave(c, call)

----------------------------------------------------------------------------
(* Discovery and the proxy manager (rootCmdRun in app.go, gopushpixels       *)
(* discovery and proxy)                                                      *)

\* the discovery_expiration flag, in sweeper ticks
Expiration == 2

\* the headers a real device broadcasts
DeviceHeaders(m) == [mac |-> m, group |-> 2, controller |-> 7]
RealBroadcasts == {DeviceHeaders(m) : m \in RealMacs}

\* every datagram the discovery address can carry: those of the real devices
\* and those broadcast for their proxy devices
Broadcasts ==
    RealBroadcasts \cup
    {[mac |-> ProxyMac(m), group |-> DeviceHeaders(m).group + g,
      controller |-> DeviceHeaders(m).controller] : m \in RealMacs, g \in GroupOffsets}

\* a proxy.Manager built without the configured offset
ManagerGroupOffset_Unset == 0

\* proxy.Manager.GroupOffset as rootCmdRun sets it
ManagerGroupOffset == groupOffset

\* proxy.Manager.AddDevice: the headers synthesized for the proxy of h
ProxyHeaders(h) ==
    [mac |-> ProxyMac(h.mac), group |-> h.group + ManagerGroupOffset,
     controller |-> h.controller]

\* proxy.Manager.AddDevice: a proxy device is made and paired with h.mac
AddDevice(px, h) == [px EXCEPT ![h.mac] = Append(@, ProxyHeaders(h))]

\* proxy.Manager.ProxyDevices: the headers of every proxy device
ProxyDevices(px) == UNION {{px[m][i] : i \in DOMAIN px[m]} : m \in DOMAIN px}

\* proxy.Manager.IsProxyDeviceAddr
IsProxyDeviceAddr(mac) == mac.pre = ProxyPrefix

\* a listener filter that lets every header through
FilterFunc_AcceptAll(h) == TRUE

\* discovery.Listener.FilterFunc as rootCmdRun sets it
FilterFunc(h) == ~IsProxyDeviceAddr(h.mac)

\* the callback rootCmdRun gives to discovery.ListenAndRegister: AddDevice,
\* whose error is logged and dropped
OnNewDevice(px, h, addOk) == IF addOk THEN AddDevice(px, h) ELSE px

\* everything the discovery and proxy side leaves alone
CtrlUnchanged ==
    /\ UNCHANGED <<hasProxyManagerLease, defaultFile, autoResumeDelay, pending, runCall,
                   autoCall, ret, groupOffset, tmpFile, sdPc, sdName, sdOld, now, status,
                   fatal, app, router, util>>
    /\ osControl' = NoControl
    /\ RunUnchanged

\* discovery.ListenAndRegister: one datagram is received, filtered, upserted
\* into the registry and, when the device is new, handed to the callback
ListenerReceive(h, addOk) ==
    /\ h \in RealBroadcasts \cup wire
    /\ wire' = wire \ {h}
    /\ heard' = [seen |-> TRUE, mac |-> h.mac, accepted |-> FilterFunc(h)]
    /\ IF FilterFunc(h)
       THEN /\ registry' = [registry EXCEPT ![h.mac] = 0]
            /\ proxies' = IF registry[h.mac] = Absent
                          THEN OnNewDevice(proxies, h, addOk)
                          ELSE proxies
       ELSE UNCHANGED <<registry, proxies>>
    /\ UNCHANGED <<pkt, cb>>
    /\ CtrlUnchanged
    /\ TaskUnchanged

\* the "Discovery broadcast" loop of rootCmdRun: the headers of every proxy
\* device go out on the discovery address, where the listener hears them too
DiscoveryBroadcast ==
    /\ ProxyDevices(proxies) # {}
    /\ wire' = wire \cup ProxyDevices(proxies)
    /\ UNCHANGED <<registry, proxies, pkt, heard, cb>>
    /\ CtrlUnchanged
    /\ TaskUnchanged

\* time passes for the registry: every observed age grows; the sweeper
\* removes an overdue device before time passes again
SweeperTick ==
    /\ \E m \in Macs : registry[m] # Absent
    /\ \A m \in Macs : registry[m] <= Expiration
    /\ registry' = [m \in Macs |-> IF registry[m] = Absent THEN Absent ELSE registry[m] + 1]
    /\ UNCHANGED <<proxies, wire, pkt, heard, cb>>
    /\ CtrlUnchanged
    /\ TaskUnchanged

\* a sweeper whose removal of m leaves the proxy of m in place
Expire_KeepProxy(m) ==
    /\ registry[m] > Expiration
    /\ registry' = [registry EXCEPT ![m] = Absent]
    /\ UNCHANGED <<proxies, wire, pkt, heard, cb>>
    /\ CtrlUnchanged
    /\ TaskUnchanged

\* discovery.Registry's sweeper expires device m; its proxy is closed and
\* removed with it
Expire(m) ==
    /\ registry[m] > Expiration
    /\ registry' = [registry EXCEPT ![m] = Absent]
    /\ proxies' = [proxies EXCEPT ![m] = <<>>]
    /\ UNCHANGED <<wire, pkt, heard, cb>>
    /\ CtrlUnchanged
    /\ TaskUnchanged

\* a proxy device that hands every packet on and tells its listeners so
ProxyReceive_IgnoreLeases(m) ==
    /\ proxies[m] # <<>>
    /\ RecorderTag \in listeners => cb.pc = "idle"
    /\ pkt' = [seen |-> TRUE, dev |-> m, sent |-> TRUE, forwarded |-> TRUE, to |-> listeners]
    /\ arLast' = IF AutoResumeTag \in listeners THEN 0 ELSE arLast
    /\ cb' = IF RecorderTag \in listeners THEN [pc |-> "called", dev |-> m] ELSE cb
    /\ UNCHANGED <<registry, proxies, wire, heard>>
    /\ CtrlUnchanged
    /\ UNCHANGED <<player, playerPaused, playingName, autoResumeListener, recorder,
                   recorderListener, recordingName, leases, listeners, files, recStat, sched>>

\* a packet arrives on the socket of the proxy of m: it is forwarded when
\* forwarding is enabled and the real device is alive, and every listener
\* gets it with that decision; the auto-resume listener notes the time, and
\* the recorder listener's callback is entered (the receive loop calls its
\* listeners one packet at a time)
ProxyReceive(m) ==
    /\ proxies[m] # <<>>
    /\ RecorderTag \in listeners => cb.pc = "idle"
    /\ LET decision == Forwarding /\ registry[m] # Absent IN
          pkt' = [seen |-> TRUE, dev |-> m, sent |-> decision, forwarded |-> decision,
                  to |-> listeners]
    /\ arLast' = IF AutoResumeTag \in listeners THEN 0 ELSE arLast
    /\ cb' = IF RecorderTag \in listeners THEN [pc |-> "called", dev |-> m] ELSE cb
    /\ UNCHANGED <<registry, proxies, wire, heard>>
    /\ CtrlUnchanged
    /\ UNCHANGED <<player, playerPaused, playingName, autoResumeListener, recorder,
                   recorderListener, recordingName, leases, listeners, files, recStat, sched>>

\* time passes for the auto-resume listener, up to its delay
AutoResumeTick ==
    /\ autoResumeListener
    /\ arLast # NoPacket
    /\ arLast < autoResumeDelay
    /\ arLast' = arLast + 1
    /\ UNCHANGED <<registry, proxies, wire, pkt, heard, cb>>
    /\ CtrlUnchanged
    /\ UNCHANGED <<player, playerPaused, playingName, autoResumeListener, recorder,
                   recorderListener, recordingName, leases, listeners, files, recStat, sched>>

\* the auto-resume listener's timer finds the delay elapsed since the last
\* packet and calls OnDelay, that is ResumeFile, up to its running() check
AutoResumeFire ==
    /\ autoResumeListener
    /\ arLast # NoPacket
    /\ arLast >= autoResumeDelay
    /\ autoCall = NoCall
    /\ IF running
       THEN /\ autoCall' = Call("ResumeFile", NoName)
            /\ UNCHANGED ret
       ELSE /\ ret' = ErrNotRunning
            /\ UNCHANGED autoCall
    /\ UNCHANGED <<hasProxyManagerLease, defaultFile, autoResumeDelay, pending, runCall>>
    /\ RunUnchanged
    /\ OtherUnchanged
    /\ TaskUnchanged

----------------------------------------------------------------------------
(* The specification *)

MergeSources == {<<>>, <<NameA>>}

Next ==
    \/ RunLoad
    \/ RunMark
    \/ RunPlayDefault
    \/ Cancel
    \/ RunExit
    \/ \E call \in GuardedCalls : Enter(call)
    \/ \E c \in Callers, call \in Calls : RecordFileBody(c, call)
    \/ \E c \in Callers, call \in Calls : PlayFileBody(c, call)
    \/ \E c \in Callers, call \in Calls : PauseFileBody(c, call)
    \/ \E c \in Callers, call \in Calls : ResumeFileBody(c, call)
    \/ \E c \in Callers, call \in Calls : StopBody(c, call)
    \/ \E c \in Callers, call \in Calls : DeleteFileBody(c, call)
    \/ \E c \in Callers, call \in Calls : SetDefaultFileBody(c, call)
    \/ \E c \in Callers, call \in Calls : ListFilesBody(c, call)
    \/ \E dest \in MergeDests, srcs \in MergeSources : MergeFiles(dest, srcs)
    \/ \E forward \in BOOLEAN : SetProxyForwarding(forward)
    \/ \E restart \in BOOLEAN : ShutdownEnter(restart)
    \/ \E c \in Callers, call \in Calls, restart \in BOOLEAN : ShutdownBody(c, call, restart)

Spec == Init /\ [][Next]_vars

\* Playback with auto-resume: the Controller with a stream to play and a
\* positive AutoResumeDelay, one device on the network, packets and time
InitAutoResume ==
    /\ Init
    /\ autoResumeDelay > 0
    /\ defaultFile = NoFile
    /\ files # {}

AutoResumeCalls ==
    {Call("PlayFile", NameA), Call("PauseFile", NoName), Call("ResumeFile", NoName),
     Call("Stop", NoName)}

NextAutoResume ==
    \/ RunLoad
    \/ RunMark
    \/ Cancel
    \/ RunExit
    \/ \E call \in AutoResumeCalls : Enter(call)
    \/ \E c \in Callers, call \in Calls : PlayFileBody(c, call)
    \/ \E c \in Callers, call \in Calls : PauseFileBody(c, call)
    \/ \E c \in Callers, call \in Calls : ResumeFileBody(c, call)
    \/ \E c \in Callers, call \in Calls : StopBody(c, call)
    \/ \E addOk \in BOOLEAN : ListenerReceive(DeviceHeaders(Device1), addOk)
    \/ ProxyReceive(Device1)
    \/ AutoResumeTick
    \/ AutoResumeFire

SpecAutoResume == InitAutoResume /\ [][NextAutoResume]_vars

\* discovery, proxy devices and forwarding, with either group offset and with
\* or without the snapshot listener that rootCmdRun adds to the proxy manager
InitProxy ==
    /\ InitCtrl
    /\ groupOffset \in GroupOffsets
    /\ listeners \in {{}, {SnapshotTag}}
    /\ files = {}
    /\ defaultFile = NoFile
    /\ autoResumeDelay = 0

NextProxy ==
    \/ \E h \in Broadcasts, addOk \in BOOLEAN : ListenerReceive(h, addOk)
    \/ DiscoveryBroadcast
    \/ SweeperTick
    \/ \E m \in Macs : Expire(m)
    \/ \E m \in RealMacs : ProxyReceive(m)
    \/ \E forward \in BOOLEAN : SetProxyForwarding(forward)

SpecProxy == InitProxy /\ [][NextProxy]_vars

----------------------------------------------------------------------------
(* Recording: replay.Recorder, the recorder listener of RecordFile and      *)
(* Status (controller.go)                                                   *)

\* what RecordPacket can come to: written, encoding not supported, or
\* another error of the stream writer
RecordOutcomes == {"ok", "unsupported", "fatal"}

\* the index of device m in the device metadata ds
DeviceIndex(ds, m) == CHOOSE i \in DOMAIN ds : ds[i] = m

\* a RecordPacket that writes the event without entering a new device into
\* the metadata
RecordPacket_NoMetadata(rs, m, outcome) ==
    IF rs.err THEN rs
    ELSE LET idx == IF \E i \in DOMAIN rs.devices : rs.devices[i] = m
                    THEN DeviceIndex(rs.devices, m) ELSE Len(rs.devices) + 1
         IN  CASE outcome = "ok" ->
                    [rs EXCEPT !.events = Append(@, [dev |-> idx, offset |-> now - rs.start])]
               [] outcome = "unsupported" -> rs
               [] OTHER -> [rs EXCEPT !.err = TRUE]

\* replay.Recorder.RecordPacket: the device gets its index at its first
\* packet, the offset is the time since the stream's start, the event is
\* appended; a recorder that stored an error does nothing more
RecordPacket(rs, m, outcome) ==
    IF rs.err THEN rs
    ELSE LET devs == IF \E i \in DOMAIN rs.devices : rs.devices[i] = m
                     THEN rs.devices ELSE Append(rs.devices, m)
             idx == DeviceIndex(devs, m)
         IN  CASE outcome = "ok" ->
                    [rs EXCEPT !.devices = devs,
                               !.events = Append(@, [dev |-> idx, offset |-> now - rs.start])]
               [] outcome = "unsupported" -> [rs EXCEPT !.devices = devs]
               [] OTHER -> [rs EXCEPT !.devices = devs, !.err = TRUE]

\* everything the recorder listener's callback leaves alone
CallbackUnchanged ==
    /\ UNCHANGED <<hasProxyManagerLease, defaultFile, autoResumeDelay, pending, runCall,
                   autoCall, registry, proxies, wire, groupOffset, pkt, heard, tmpFile, sdPc,
                   sdName, sdOld, now, status, app, router, util>>
    /\ osControl' = NoControl
    /\ RunUnchanged

\* the recorder listener, lines 390-396: ctrl.recorder.RecordPacket, called
\* without the mutex; nil and ErrEncodingNotSupported end the callback
RecorderListenerRecord(outcome) ==
    /\ cb.pc = "called"
    /\ outcome = "ok" => Len(recStat.events) < MaxEvents
    /\ IF ~recorder
       THEN /\ ret' = Panic
            /\ cb' = NoCallback
            /\ UNCHANGED <<recStat, fatal>>
       ELSE /\ recStat' = RecordPacket(recStat, cb.dev, outcome)
            /\ cb' = IF outcome = "fatal" /\ ~recStat.err
                     THEN [cb EXCEPT !.pc = "failed"] ELSE NoCallback
            /\ fatal' = IF outcome = "fatal" /\ ~recStat.err THEN "unreported" ELSE fatal
            /\ UNCHANGED ret
    /\ UNCHANGED <<player, playerPaused, playingName, autoResumeListener, recorder,
                   recorderListener, recordingName, leases, listeners, files, arLast, sched>>
    /\ CallbackUnchanged

\* the recorder listener, lines 398-405: RemoveListener(ctrl.recorderListener)
\* and ctrl.Stop up to its running() check, whose error is dropped
RecorderListenerDetach ==
    /\ cb.pc = "failed"
    /\ listeners' = IF recorderListener THEN RemoveListener(listeners, RecorderTag)
                    ELSE listeners
    /\ cb' = IF running THEN [cb EXCEPT !.pc = "stopping"] ELSE NoCallback
    /\ UNCHANGED <<player, playerPaused, playingName, autoResumeListener, recorder,
                   recorderListener, recordingName, leases, files, arLast, recStat, sched, ret,
                   fatal>>
    /\ CallbackUnchanged

\* the recorder listener's ctrl.Stop, lines 439-444, under the mutex
RecorderListenerStop ==
    /\ cb.pc = "stopping"
    /\ Commit(stopTaskLocked(Cur))
    /\ cb' = NoCallback
    /\ UNCHANGED <<ret, fatal>>
    /\ CallbackUnchanged

\* Status, lines 156-221: the record status is there when ctrl.recorder is
\* not nil, with the recorder's stored error
StatusCall ==
    /\ status' = [asked |-> TRUE, recording |-> recorder, error |-> recorder /\ recStat.err]
    /\ fatal' = IF fatal = "unreported" THEN "asked" ELSE fatal
    /\ UNCHANGED <<hasProxyManagerLease, defaultFile, autoResumeDelay, pending, runCall,
                   autoCall, ret, registry, proxies, wire, groupOffset, pkt, heard, tmpFile,
                   sdPc, sdName, sdOld, now, cb, app, router, util>>
    /\ osControl' = NoControl
    /\ RunUnchanged
    /\ TaskUnchanged

\* time passes
Tick ==
    /\ now < MaxTime
    /\ now' = now + 1
    /\ UNCHANGED <<hasProxyManagerLease, defaultFile, autoResumeDelay, pending, runCall,
                   autoCall, ret, registry, proxies, wire, groupOffset, pkt, heard, tmpFile,
                   sdPc, sdName, sdOld, cb, status, fatal, app, router, util>>
    /\ osControl' = NoControl
    /\ RunUnchanged
    /\ TaskUnchanged

InitRecord ==
    /\ Init
    /\ files = {}
    /\ defaultFile = NoFile
    /\ autoResumeDelay = 0

RecordCalls == {Call("RecordFile", NameA), Call("Stop", NoName)}

NextRecord ==
    \/ RunLoad
    \/ RunMark
    \/ Cancel
    \/ RunExit
    \/ \E call \in RecordCalls : Enter(call)
    \/ \E c \in Callers, call \in Calls : RecordFileBody(c, call)
    \/ \E c \in Callers, call \in Calls : StopBody(c, call)
    \/ ListenerReceive(DeviceHeaders(Device1), TRUE)
    \/ ProxyReceive(Device1)
    \/ \E outcome \in RecordOutcomes : RecorderListenerRecord(outcome)
    \/ RecorderListenerDetach
    \/ RecorderListenerStop
    \/ StatusCall

SpecRecord == InitRecord /\ [][NextRecord]_vars

\* one recording of the packets of two devices, as time passes
NextRecorder ==
    \/ RunLoad
    \/ RunMark
    \/ Enter(Call("RecordFile", NameA))
    \/ \E c \in Callers, call \in Calls : RecordFileBody(c, call)
    \/ \E h \in RealBroadcasts : ListenerReceive(h, TRUE)
    \/ \E m \in RealMacs : ProxyReceive(m)
    \/ \E outcome \in RecordOutcomes : RecorderListenerRecord(outcome)
    \/ RecorderListenerDetach
    \/ RecorderListenerStop
    \/ Tick

SpecRecorder == InitRecord /\ [][NextRecorder]_vars

----------------------------------------------------------------------------
(* Storage.SetDefault step by step (util.CreateViaTempMove, atomicfile.go) *)

\* the non-empty names written as the default
SetDefaultNames == {NameA, NameB, NamePaddedA}

\* everything a SetDefault leaves alone
StorageUnchanged ==
    /\ UNCHANGED <<hasProxyManagerLease, autoResumeDelay, pending, runCall, autoCall,
                   registry, proxies, wire, groupOffset, pkt, heard>>
    /\ osControl' = NoControl
    /\ AsideUnchanged
    /\ RunUnchanged
    /\ TaskUnchanged

\* the deferred cleanup of CreateViaTempMove on an error return: the
\* temporary file is closed and removed, the error is returned
SetDefaultFail ==
    /\ tmpFile' = NoFile
    /\ sdPc' = "idle"
    /\ ret' = ErrOther

\* SetDefault(name), lines 100-113, up to ioutil.TempFile (atomicfile.go:17-21)
SetDefaultBegin(name, ok) ==
    /\ sdPc = "idle"
    /\ tmpFile = NoFile
    /\ sdName' = name
    /\ sdOld' = GetDefault(defaultFile)
    /\ IF ok
       THEN /\ tmpFile' = FileWith(EmptyName)
            /\ sdPc' = "created"
            /\ UNCHANGED ret
       ELSE SetDefaultFail
    /\ UNCHANGED defaultFile
    /\ StorageUnchanged

\* a SetDefault that writes the name into the default file itself
SetDefaultWrite_InPlace(ok) ==
    /\ sdPc = "created"
    /\ \E n \in 0..Len(sdName) :
          IF ok /\ n = Len(sdName)
          THEN /\ defaultFile' = FileWith(sdName)
               /\ tmpFile' = FileWith(sdName)
               /\ sdPc' = "written"
               /\ UNCHANGED ret
          ELSE /\ defaultFile' = FileWith(SubSeq(sdName, 1, n))
               /\ SetDefaultFail
    /\ UNCHANGED <<sdName, sdOld>>
    /\ StorageUnchanged

\* fn(fd), atomicfile.go:34-36: w.Write of the name into the temporary file;
\* n bytes arrive, and the write fails unless all of them did
SetDefaultWrite(ok) ==
    /\ sdPc = "created"
    /\ \E n \in 0..Len(sdName) :
          IF ok /\ n = Len(sdName)
          THEN /\ tmpFile' = FileWith(sdName)
               /\ sdPc' = "written"
               /\ UNCHANGED ret
          ELSE SetDefaultFail
    /\ UNCHANGED <<defaultFile, sdName, sdOld>>
    /\ StorageUnchanged

\* fd.Close, atomicfile.go:39-42
SetDefaultClose(ok) ==
    /\ sdPc = "written"
    /\ IF ok
       THEN /\ sdPc' = "closed"
            /\ UNCHANGED <<tmpFile, ret>>
       ELSE SetDefaultFail
    /\ UNCHANGED <<defaultFile, sdName, sdOld>>
    /\ StorageUnchanged

\* os.Rename, atomicfile.go:45-50: the temporary file becomes the default
SetDefaultRename(ok) ==
    /\ sdPc = "closed"
    /\ IF ok
       THEN /\ defaultFile' = tmpFile
            /\ tmpFile' = NoFile
            /\ sdPc' = "idle"
            /\ ret' = ErrNil
       ELSE /\ SetDefaultFail
            /\ UNCHANGED defaultFile
    /\ UNCHANGED <<sdName, sdOld>>
    /\ StorageUnchanged

\* the process is interrupted inside SetDefault: whatever is on disk stays,
\* a write under way having put any part of the name into the temporary file
SetDefaultInterrupt ==
    /\ sdPc \in {"created", "written", "closed"}
    /\ sdPc' = "interrupted"
    /\ \E n \in 0..Len(sdName) :
          tmpFile' = IF sdPc = "created" THEN FileWith(SubSeq(sdName, 1, n)) ELSE tmpFile
    /\ UNCHANGED <<defaultFile, sdName, sdOld, ret>>
    /\ StorageUnchanged

\* S.Prepare, lines 63-77, at the next start: temporary/ is purged
StoragePrepare ==
    /\ sdPc = "interrupted"
    /\ tmpFile' = NoFile
    /\ sdPc' = "idle"
    /\ UNCHANGED <<defaultFile, sdName, sdOld, ret>>
    /\ StorageUnchanged

\* SetDefault(""), lines 101-107: the default file is removed
SetDefaultClear(ok) ==
    /\ sdPc = "idle"
    /\ IF ok
       THEN /\ defaultFile' = SetDefault(defaultFile, EmptyName)
            /\ ret' = ErrNil
       ELSE /\ ret' = ErrOther
            /\ UNCHANGED defaultFile
    /\ sdName' = EmptyName
    /\ sdOld' = GetDefault(defaultFile)
    /\ UNCHANGED <<tmpFile, sdPc>>
    /\ StorageUnchanged

InitDefault ==
    /\ Init
    /\ files = {}
    /\ autoResumeDelay = 0

NextDefault ==
    \/ \E name \in SetDefaultNames, ok \in BOOLEAN : SetDefaultBegin(name, ok)
    \/ \E ok \in BOOLEAN : SetDefaultWrite(ok)
    \/ \E ok \in BOOLEAN : SetDefaultClose(ok)
    \/ \E ok \in BOOLEAN : SetDefaultRename(ok)
    \/ SetDefaultInterrupt
    \/ StoragePrepare
    \/ \E ok \in BOOLEAN : SetDefaultClear(ok)

SpecDefault == InitDefault /\ [][NextDefault]_vars

----------------------------------------------------------------------------
(* Claims *)

\* C1: whenever the controller holds a player, the lease set contains that
\* player's lease and forwarding is disabled.
C1_PlayerHoldsLease ==
    player # 0 => (leases[LeaserHolder(player)] > 0 /\ ~Forwarding)

\* a paused player whose lease is the only one held
C1_Witness ==
    player # 0 /\ playerPaused /\ leases[CtrlHolder] = 0 /\ ~Forwarding

\* C2: at most one of the controller's recorder and player is non-nil.
C2_OneTask == ~(recorder /\ player # 0)

\* a recording is on, it replaced a playback, and a PlayFile that passed
\* running() waits for the mutex
C2_Witness ==
    /\ recorder
    /\ player = 0
    /\ \E call \in Calls : call.op = "PlayFile" /\ BagIn(call, pending)

\* C3: when SetProxyForwarding(true) returns the controller's lease is gone,
\* and forwarding is enabled if there is no player.
C3_ForwardTrueReleases ==
    [][SetProxyForwarding(TRUE) =>
          (leases'[CtrlHolder] = 0 /\ (player' = 0 => Forwarding'))]_vars

C6_LeasesAreCounted ==
    [][SetProxyForwarding(TRUE) =>
          /\ (leases[CtrlHolder] >= 2 => ~Forwarding')
          /\ ((leases[CtrlHolder] = 1 /\ \A p \in PlayerIds : leases[p] = 0)
                 => Forwarding')]_vars

\* AddLease(h); AddLease(h); RemoveLease(h) has happened: one lease is left
\* though the controller's flag is down
C6_Witness ==
    leases[CtrlHolder] = 1 /\ ~hasProxyManagerLease /\ player = 0 /\ ~Forwarding

\* C7: a guarded method entered while the controller is not running returns
\* errNotRunning, and nothing but the returned error changes.
C7_NotRunning ==
    [][~isRunning =>
          \A call \in GuardedCalls :
             Enter(call) =>
              /\ ret' = ErrNotRunning
              /\ UNCHANGED <<isRunning, ctx, systemControl, player, playerPaused,
                             playingName, autoResumeListener, recorder,
                             recorderListener, recordingName, hasProxyManagerLease,
                             leases, listeners, files, defaultFile, runPc,
                             runDefault, cancelled, autoResumeDelay, pending, runCall, autoCall>>]_vars

\* Run has exited and a guarded method has returned errNotRunning
C7_Witness ==
    /\ ~isRunning
    /\ systemControl = "default"
    /\ runPc = "stopped"
    /\ ret = ErrNotRunning
    /\ pending = EmptyBag
    /\ runCall = NoCall

\* C8: MergeFiles merges only when the controller is running and srcs is not
\* empty; otherwise it returns an error and leaves the storage alone; it never
\* changes the current task.
C8_MergeGuarded ==
    [][\A dest \in MergeDests, srcs \in MergeSources :
          MergeFiles(dest, srcs) =>
              /\ (~(isRunning /\ Len(srcs) > 0) => (ret' # ErrNil /\ files' = files))
              /\ UNCHANGED <<player, playerPaused, playingName, recorder,
                             recorderListener, recordingName, autoResumeListener>>]_vars

\* C9: when Run returns the controller's lease is gone, and once Run has
\* returned the controller holds no player, recorder, recorder listener or
\* auto-resume listener and no player's lease is held.
C9_RunExitCleans ==
    [][/\ RunExit => leases'[CtrlHolder] = 0
       /\ runPc' = "stopped" =>
             /\ player' = 0
             /\ ~recorder'
             /\ ~recorderListener'
             /\ ~autoResumeListener'
             /\ \A p \in PlayerIds : leases'[p] = 0]_vars

\* C10: Run issues PlayFile on a non-empty persisted default name, after which
\* (if the file opened) the controller plays it with forwarding disabled; with
\* an empty default Run goes idle to its wait; whether or not the default file
\* played, Run waits, and it leaves its wait only when its context is cancelled.
C10_RunPlaysDefault ==
    [][/\ (runPc = "stopped" /\ runPc' = "loaded") =>
             runDefault' = GetDefault(defaultFile)
       /\ (runPc = "loaded" /\ runPc' # "loaded") =>
             IF runDefault # EmptyName
             THEN runPc' = "started" /\ isRunning'
             ELSE /\ runPc' = "waiting" /\ isRunning'
                  /\ player' = 0 /\ ~recorder'
                  /\ runCall' = NoCall
       /\ (runPc = "started" /\ runPc' # "started") =>
             /\ runPc' = "playing"
             /\ runCall' = Call("PlayFile", runDefault)
       /\ (runPc = "playing" /\ runPc' # "playing") =>
             /\ runPc' = "waiting" /\ isRunning'
             /\ IF makeFileForName(runCall.name) \in stopTaskLocked(Cur).files
                THEN /\ player' # 0
                     /\ playingName' = runCall.name
                     /\ ~Forwarding'
                ELSE player' = 0
       /\ (runPc # "stopped" /\ runPc' = "stopped") => cancelled]_vars

\* Run is about to play the persisted default file, which exists
C10_Witness ==
    /\ runPc = "playing"
    /\ runCall = Call("PlayFile", NamePaddedA)
    /\ defaultFile = FileWith(NamePaddedA)
    /\ OpenReaderOk(files, NamePaddedA)

\* C11: stopTask is idempotent: from every reachable controller state, after a
\* first stopTask there is no player, recorder, recorder listener or
\* auto-resume listener, and a second stopTask changes nothing (leases,
\* listeners and storage included).
C11_StopTaskIdempotent ==
    LET s1 == stopTaskLocked(Cur) IN
    /\ s1.player = 0 /\ s1.playingName = NoName
    /\ ~s1.recorder /\ ~s1.recorderListener /\ ~s1.autoResumeListener
    /\ stopTaskLocked(s1) = s1

\* Stop is about to act on a paused player with an armed auto-resume listener
C11_Witness ==
    /\ player # 0 /\ playerPaused /\ autoResumeListener
    /\ AutoResumeTag \in listeners
    /\ leases[LeaserHolder(player)] = 1
    /\ stopTaskLocked(Cur) # Cur
    /\ BagIn(Call("Stop", NoName), pending)

\* C12: when DeleteFile(n) returns, no recorder or player of the controller
\* still works on the storage entry n resolves to, and a task on a different
\* entry is left as it was.
C12_DeleteStopsTask ==
    [][\A c \in Callers, call \in Calls :
          DeleteFileBody(c, call) =>
             LET entry == makeFileForName(call.name) IN
             /\ ~(recorder' /\ makeFileForName(recordingName') = entry)
             /\ ~(player' # 0 /\ makeFileForName(playingName') = entry)
             /\ (recorder /\ makeFileForName(recordingName) # entry) =>
                   (recorder' /\ recordingName' = recordingName)
             /\ (player # 0 /\ makeFileForName(playingName) # entry) =>
                   (player' = player /\ playingName' = playingName)]_vars

\* C13: in every reachable state an auto-resume listener is active only if the
\* controller has a player that is paused (so PauseFile with no player arms
\* nothing).
C13_ListenerOnlyWhenPaused ==
    autoResumeListener => (player # 0 /\ playerPaused)

\* C14: a paused player is auto-resumed only after a packet reached a proxy
\* since the pause and AutoResumeDelay elapsed since the last such packet;
\* without such a packet it stays paused until ResumeFile or a stop.
C14_AutoResumeAfterPacket ==
    [][/\ AutoResumeFire => (arLast # NoPacket /\ arLast >= autoResumeDelay)
       /\ \A call \in Calls :
             (ResumeFileBody(AutoCaller, call) /\ player # 0 /\ playerPaused)
                => arLast # NoPacket
       /\ (player # 0 /\ playerPaused /\ player' # 0 /\ ~playerPaused')
             => \E c \in Callers, call \in Calls :
                   ResumeFileBody(c, call) \/ PlayFileBody(c, call)]_vars

\* C15: after SetDefault(x) succeeds GetDefault returns x, for a non-empty x
\* and for the empty name, whether or not a default existed before.
C15_DefaultRoundTrip ==
    [][\A c \in Callers, call \in Calls :
          (SetDefaultFileBody(c, call) /\ ret' = ErrNil)
             => GetDefault(defaultFile') = call.name]_vars

\* SetDefaultFile of a name with a leading blank is about to write over no
\* default
C15_Witness ==
    /\ BagIn(Call("SetDefaultFile", NamePaddedA), pending)
    /\ defaultFile = NoFile
    /\ GetDefault(SetDefault(defaultFile, NamePaddedA)) = NamePaddedA

\* C16: a SetDefault(x) with non-empty x that fails or is interrupted at any
\* step leaves GetDefault returning the previous default; the default file
\* holds the complete old name or the complete new name, never a part of one.
C16_DefaultIntact ==
    [][/\ sdPc' # "idle" => GetDefault(defaultFile') = sdOld'
       /\ (sdPc # "idle" /\ sdPc' = "idle" /\ ret' # ErrNil)
             => GetDefault(defaultFile') = sdOld
       /\ GetDefault(defaultFile') \in {GetDefault(defaultFile), sdName'}]_vars

\* a SetDefault over an existing default was interrupted after a partial
\* write into its temporary file
C16_Witness ==
    /\ sdPc = "interrupted"
    /\ sdName = NamePaddedA
    /\ tmpFile = FileWith(SubSeq(NamePaddedA, 1, 1))
    /\ defaultFile = FileWith(NameA)

\* the proxy device that belongs to the real device with MAC m
ExpectedProxy(m) ==
    [mac |-> Mac(ProxyPrefix, m.suf), group |-> DeviceHeaders(m).group + groupOffset,
     controller |-> DeviceHeaders(m).controller]

C18_NoProxyOfProxy ==
    /\ \A m \in Macs : m.pre = ProxyPrefix => (registry[m] = Absent /\ proxies[m] = <<>>)
    /\ (heard.seen /\ heard.mac.pre = ProxyPrefix) => ~heard.accepted

\* the listener received the headers broadcast for a proxy device
C18_Witness ==
    /\ heard = [seen |-> TRUE, mac |-> ProxyMac(Device1), accepted |-> FALSE]
    /\ proxies[Device1] # <<>>
    /\ wire = {}

\* C19: a registered device leaves the registry only when its observed age
\* exceeds the expiration window, its proxy goes in the same step, a device
\* observed again starts a new window, and no proxy is left whose real device
\* is not in the registry.
C19_ExpireWithProxy ==
    /\ [](\A m \in Macs : proxies[m] # <<>> => registry[m] # Absent)
    /\ [](\A m \in Macs : registry[m] <= Expiration + 1)
    /\ [][\A m \in Macs :
            /\ (registry[m] # Absent /\ registry'[m] = Absent)
                  => (registry[m] > Expiration /\ proxies'[m] = <<>>)
            /\ (registry[m] # Absent /\ registry[m] <= Expiration) => registry'[m] # Absent
            /\ (m \in RealMacs /\ \E addOk \in BOOLEAN : ListenerReceive(DeviceHeaders(m), addOk))
                  => registry'[m] = 0]_vars

\* Device1 has expired with its proxy while Device2, observed later, stays
C19_Witness ==
    /\ registry[Device1] = Absent
    /\ proxies[Device1] = <<>>
    /\ heard = [seen |-> TRUE, mac |-> Device2, accepted |-> TRUE]
    /\ registry[Device2] = 1
    /\ proxies[Device2] # <<>>
    /\ pkt.seen /\ pkt.dev = Device1

C27_RecordingTakesNoLease ==
    [][/\ \A c \in Callers, call \in Calls : RecordFileBody(c, call) =>
             \A h \in Holders : leases'[h] <= leases[h]
       /\ recorder' =>
             /\ \A p \in PlayerIds : leases'[LeaserHolder(p)] = 0
             /\ (leases'[CtrlHolder] > 0) <=> hasProxyManagerLease'
             /\ ForwardingOf(leases') <=> ~hasProxyManagerLease']_vars

\* C24: in a recording every event written carries a device index that is a
\* valid index into the stream's device metadata, the index the device got at
\* its first packet, and the event offsets are non-decreasing in write order.
C24_RecordedEventsValid ==
    /\ [](\A i \in DOMAIN recStat.events :
            /\ recStat.events[i].dev \in DOMAIN recStat.devices
            /\ recStat.events[i].offset >= 0
            /\ i > 1 => recStat.events[i - 1].offset <= recStat.events[i].offset)
    /\ [](\A i, j \in DOMAIN recStat.devices :
            recStat.devices[i] = recStat.devices[j] => i = j)
    /\ [][(RecorderListenerRecord("ok") /\ recorder /\ ~recStat.err) =>
            /\ Len(recStat'.events) = Len(recStat.events) + 1
            /\ SubSeq(recStat'.events, 1, Len(recStat.events)) = recStat.events
            /\ SubSeq(recStat'.devices, 1, Len(recStat.devices)) = recStat.devices
            /\ recStat'.devices[recStat'.events[Len(recStat'.events)].dev] = cb.dev
            /\ recStat'.events[Len(recStat'.events)].offset = now - recStat.start]_vars

\* a recording that began late holds two events of two devices, the second
\* device first, written at different times
C24_Witness ==
    /\ recorder
    /\ recStat.start = 1
    /\ recStat.devices = <<Device2, Device1>>
    /\ recStat.events = <<[dev |-> 1, offset |-> 0], [dev |-> 2, offset |-> 1]>>

\* C25: when RecordPacket fails with encoding-not-supported the event is
\* skipped and the recording goes on with its listener attached; when it
\* fails with another error the callback ends with the recorder listener
\* detached and the recording stopped, and a recorder that failed records no
\* later packet.
C25_RecordErrors ==
    [][/\ (RecorderListenerRecord("unsupported") /\ recorder /\ ~recStat.err) =>
             /\ recStat'.events = recStat.events
             /\ ~recStat'.err
             /\ UNCHANGED <<recorder, recorderListener, recordingName, listeners>>
       /\ (cb.pc \in {"failed", "stopping"} /\ cb'.pc = "idle") =>
             /\ RecorderTag \notin listeners'
             /\ ~recorder'
       /\ \A outcome \in RecordOutcomes :
             (RecorderListenerRecord(outcome) /\ recorder /\ recStat.err) => recStat' = recStat]_vars

\* C26: after a fatal stream-writer error during a recording, the next
\* Status() call reports that error in the record status.
C26_StatusReportsFatal ==
    [][(StatusCall /\ fatal = "unreported") => (status'.recording /\ status'.error)]_vars

\* C29: Shutdown(restart) is legal in every controller state, before Run and
\* after Run returned included: it stops the current task if there is one and
\* then invokes the OS restart control when restart is true and the OS
\* shutdown control otherwise.
C29_ShutdownAlways ==
    [][\A restart \in BOOLEAN :
          ((ShutdownEnter(restart) /\ ~isRunning)
              \/ \E c \in Callers, call \in Calls : ShutdownBody(c, call, restart)) =>
             /\ ret' # Panic
             /\ osControl' = IF restart THEN "restart" ELSE "shutdown"
             /\ player' = 0 /\ ~recorder' /\ ~recorderListener' /\ ~autoResumeListener']_vars

----------------------------------------------------------------------------
(* Application startup (rootCmdRun) *)

\* everything rootCmdRun and its operations leave alone
AppUnchanged ==
    /\ UNCHANGED <<hasProxyManagerLease, defaultFile, autoResumeDelay, pending, runCall,
                   autoCall, ret, registry, proxies, wire, groupOffset, pkt, heard, tmpFile,
                   sdPc, sdName, sdOld, now, cb, status, fatal, router, util>>
    /\ osControl' = NoControl
    /\ RunUnchanged
    /\ TaskUnchanged

\* operationFinished, lines 198-217, on the state a of the application: a nil
\* error and a cancellation are only logged, any other error cancels the
\* Context and is counted
operationFinished(a, failed) ==
    IF failed
    THEN [a EXCEPT !.cancelled = TRUE, !.errorCount = @ + 1]
    ELSE a

\* an early return with an error: the deferred functions run next
ReturnError(a, f) == [a EXCEPT !.pc = "closing", !.appErr = TRUE, !.failure = f]

\* lines 300-311: the "Discovery broadcast" operation is started
AppStartBroadcast ==
    /\ app.pc = "init"
    /\ app' = [app EXCEPT !.pc = "conn", !.ops["broadcast"] = "running"]
    /\ AppUnchanged

\* lines 314-318: the discovery socket is created, or rootCmdRun returns
AppListenConn(ok) ==
    /\ app.pc = "conn"
    /\ app' = IF ok THEN [app EXCEPT !.pc = "start"] ELSE ReturnError(app, "conn")
    /\ AppUnchanged

\* lines 320-356: the listener is started and its Close deferred, the
\* "Discovery listener" operation is started, or rootCmdRun returns
AppListenerStart(ok) ==
    /\ app.pc = "start"
    /\ app' = IF ok
              THEN [app EXCEPT !.pc = "install", !.ops["listener"] = "running"]
              ELSE ReturnError(app, "start")
    /\ AppUnchanged

\* lines 360-412: the HTTP routes are installed and the "web server"
\* operation is started, or rootCmdRun returns
AppInstall(ok) ==
    /\ app.pc = "install"
    /\ app' = IF ok
              THEN [app EXCEPT !.pc = "run", !.ops["web"] = "running"]
              ELSE ReturnError(app, "install")
    /\ AppUnchanged

\* lines 415-422 and Run, lines 95-98: Run fails to load the default file
AppRunFail ==
    /\ app.pc = "run"
    /\ app' = ReturnError(app, "run")
    /\ AppUnchanged

\* lines 423-425 and Run, lines 142-143: Run returns once the Context is cancelled
AppRunReturn ==
    /\ app.pc = "run"
    /\ app.cancelled
    /\ app' = [app EXCEPT !.pc = "closing"]
    /\ AppUnchanged

\* the deferred functions that run before the wait, in reverse order of their
\* registration: lines 344 and 334-338 when the listener was started, then
\* lines 292-294 and 256-258, whose Close errors go to operationFinished
AppClose(senderFailed, managerFailed) ==
    /\ app.pc = "closing"
    /\ app' = operationFinished(
                 operationFinished(
                    [app EXCEPT !.pc = "wait", !.closed = (app.ops["listener"] # "none")],
                    senderFailed),
                 managerFailed)
    /\ AppUnchanged

\* the deferred processWG.Wait() of line 233, then those of lines 228,
\* 191-195 and 186: the cancelFunc registered first runs last
AppWait ==
    /\ app.pc = "wait"
    /\ \A o \in Operations : app.ops[o] # "running"
    /\ app' = [app EXCEPT !.pc = "returned",
                          !.appErr = @ \/ app.errorCount > 0,
                          !.cancelled = TRUE]
    /\ AppUnchanged

\* an operation returns because the Context is cancelled: LoopUntil
\* (loopuntil.go:14-36) for the broadcast, whose function never fails,
\* ListenAndRegister, and the web server's Shutdown of lines 398-411
OperationCancelled(o) ==
    /\ app.ops[o] = "running"
    /\ app.cancelled
    /\ app' = operationFinished([app EXCEPT !.ops[o] = "done"], FALSE)
    /\ AppUnchanged

\* the listener is closed under the "Discovery listener" operation, which
\* returns the error of its next receive
ListenerClosed ==
    /\ app.ops["listener"] = "running"
    /\ app.closed
    /\ app' = operationFinished([app EXCEPT !.ops["listener"] = "done"], TRUE)
    /\ AppUnchanged

\* ListenAndServe fails, lines 406-410
WebServerFails ==
    /\ app.ops["web"] = "running"
    /\ ~app.cancelled
    /\ app' = operationFinished([app EXCEPT !.ops["web"] = "done"], TRUE)
    /\ AppUnchanged

\* an interrupt signal cancels the parent Context, application.go:84-100
Interrupt ==
    /\ app.pc \notin {"init", "returned"}
    /\ ~app.cancelled
    /\ app' = [app EXCEPT !.cancelled = TRUE]
    /\ AppUnchanged

NextStartup ==
    \/ AppStartBroadcast
    \/ \E ok \in BOOLEAN : AppListenConn(ok)
    \/ \E ok \in BOOLEAN : AppListenerStart(ok)
    \/ \E ok \in BOOLEAN : AppInstall(ok)
    \/ AppRunFail
    \/ AppRunReturn
    \/ \E senderFailed, managerFailed \in BOOLEAN : AppClose(senderFailed, managerFailed)
    \/ AppWait
    \/ \E o \in Operations : OperationCancelled(o)
    \/ ListenerClosed
    \/ WebServerFails
    \/ Interrupt

\* every step of rootCmdRun and of its goroutines is eventually taken; a
\* failure of the web server and an interrupt are not owed
FairStartup ==
    /\ WF_vars(AppStartBroadcast)
    /\ WF_vars(\E ok \in BOOLEAN : AppListenConn(ok))
    /\ WF_vars(\E ok \in BOOLEAN : AppListenerStart(ok))
    /\ WF_vars(\E ok \in BOOLEAN : AppInstall(ok))
    /\ WF_vars(AppRunReturn)
    /\ WF_vars(\E senderFailed, managerFailed \in BOOLEAN : AppClose(senderFailed, managerFailed))
    /\ WF_vars(AppWait)
    /\ \A o \in Operations : WF_vars(OperationCancelled(o))
    /\ WF_vars(ListenerClosed)

SpecStartup == Init /\ [][NextStartup]_vars /\ FairStartup

\* C30: every startup failure after background operations were started makes
\* rootCmdRun eventually return a non-nil error, with the root context
\* cancelled and every started background operation ended.
C30_StartupFailureReturns ==
    (app.failure # "none") ~>
        (/\ app.pc = "returned" /\ app.appErr /\ app.cancelled
         /\ \A o \in Operations : app.ops[o] # "running")

----------------------------------------------------------------------------
(* The device router (device.Router over device.Registry) *)

\* the device IDs and ordinals of the router's model
RouteIds == {"d1", "d2"}
Ordinals == {Ordinal(1, 1), Ordinal(1, 2)}

\* everything the router and the registry leave alone
RouterUnchanged ==
    /\ UNCHANGED <<hasProxyManagerLease, defaultFile, autoResumeDelay, pending, runCall,
                   autoCall, ret, registry, proxies, wire, groupOffset, pkt, heard, tmpFile,
                   sdPc, sdName, sdOld, now, cb, status, fatal, app, util>>
    /\ osControl' = NoControl
    /\ RunUnchanged
    /\ TaskUnchanged

\* the registry entries other than the one of id, in observation order
Without(reg, id) == SelectSeq(reg, LAMBDA d : d.id # id)

\* Registry.Add: an upsert that makes the device the most recently observed
RegistryAdd(id, ord) ==
    /\ router' = [router EXCEPT !.reg = Append(Without(@, id), [id |-> id, ord |-> ord])]
    /\ RouterUnchanged

\* Registry.Remove
RegistryRemove(id) ==
    /\ \E i \in 1..Len(router.reg) : router.reg[i].id = id
    /\ router' = [router EXCEPT !.reg = Without(@, id)]
    /\ RouterUnchanged

\* the lookup by ID: the ID when it is registered
LookupId(reg, id) ==
    IF \E i \in 1..Len(reg) : reg[i].id = id THEN id ELSE NoId

\* Registry.FindByOrdinal: the most recently observed device with the ordinal
FindByOrdinal(reg, ord) ==
    LET hits == {i \in 1..Len(reg) : reg[i].ord = ord}
    IN  IF hits = {} THEN NoId
        ELSE reg[CHOOSE i \in hits : \A j \in hits : j <= i].id

\* the resolution order of Route: by ID, else by ordinal, else no route
Resolve(reg, ord, id) ==
    IF id # NoId THEN LookupId(reg, id)
    ELSE IF IsValid(ord) THEN FindByOrdinal(reg, ord)
    ELSE NoId

\* Router.Route on the router r, called by the caller by: resolve, send once
\* on a hit, return the send's error or the resolution's
Route(r, by, ord, id, sendOk) ==
    LET target == Resolve(r.reg, ord, id)
    IN  [r EXCEPT !.call = [by |-> by, ord |-> ord, id |-> id],
                  !.target = target,
                  !.sent = IF target # NoId THEN Append(@, target) ELSE @,
                  !.ret = IF target = NoId THEN ErrNoRoute
                          ELSE IF sendOk THEN ErrNil ELSE ErrOther]

\* a SendPacket that drops the device ID
SendPacket_OrdinalOnly(ord, id, sendOk) ==
    /\ Len(router.sent) < MaxSends
    /\ router' = Route(router, "player", ord, NoId, sendOk)
    /\ RouterUnchanged

\* the player's SendPacket, PlayFile lines 467-470
SendPacket(ord, id, sendOk) ==
    /\ Len(router.sent) < MaxSends
    /\ router' = Route(router, "player", ord, id, sendOk)
    /\ RouterUnchanged

\* dispatchPacket of the pixel client for the device d, part_000 lines
\* 198-231: routed by ID alone, an error is returned to the caller
dispatchPacket(d, sendOk) ==
    /\ Len(router.sent) < MaxSends
    /\ router' = Route(router, "client", InvalidOrdinal, d, sendOk)
    /\ RouterUnchanged

NextRouter ==
    \/ \E id \in RouteIds, ord \in Ordinals : RegistryAdd(id, ord)
    \/ \E id \in RouteIds : RegistryRemove(id)
    \/ \E ord \in Ordinals \cup {InvalidOrdinal}, id \in RouteIds \cup {NoId}, sendOk \in BOOLEAN :
          SendPacket(ord, id, sendOk)
    \/ \E d \in RouteIds, sendOk \in BOOLEAN : dispatchPacket(d, sendOk)

SpecRouter == Init /\ [][NextRouter]_vars

\* the registered device that (ord, id) names: the one with the ID when an ID
\* is given, else the one observed last among those with a valid ordinal
Named(ord, id) ==
    {d \in RouteIds :
        \E i \in 1..Len(router.reg) :
           /\ router.reg[i].id = d
           /\ IF id # NoId THEN d = id
              ELSE /\ IsValid(ord)
                   /\ router.reg[i].ord = ord
                   /\ \A j \in (i + 1)..Len(router.reg) : router.reg[j].ord # ord}

\* C28: Route(ordinal, id, packet) resolves by ID when id is non-empty,
\* otherwise by (group, controller) when the ordinal is valid, otherwise it
\* fails with NoRoute; a failed resolution returns an error and sends nothing,
\* and no call sends more than once.
C28_RouteOrder ==
    [][\A ord \in Ordinals \cup {InvalidOrdinal}, id \in RouteIds \cup {NoId}, sendOk \in BOOLEAN :
          (SendPacket(ord, id, sendOk)
              \/ (ord = InvalidOrdinal /\ id # NoId /\ dispatchPacket(id, sendOk))) =>
             IF Named(ord, id) = {}
             THEN /\ router'.ret = ErrNoRoute
                  /\ router'.sent = router.sent
             ELSE /\ \E d \in Named(ord, id) : router'.sent = Append(router.sent, d)
                  /\ router'.ret = IF sendOk THEN ErrNil ELSE ErrOther]_vars

\* a call without an ID and with a valid ordinal that no device has, after a
\* packet was sent: it fails with NoRoute
C28_Witness ==
    /\ router.call.by = "player" /\ router.call.id = NoId /\ IsValid(router.call.ord)
    /\ router.ret = ErrNoRoute
    /\ Len(router.sent) > 0
    /\ Len(router.reg) > 0

----------------------------------------------------------------------------
(* The player's scheduler (replay.Player) *)

\* the clock jumps by at most this much between two looks of the scheduler
ClockJumps == {1, 2}

\* everything the scheduler and its clock leave alone
SchedulerUnchanged ==
    /\ UNCHANGED <<hasProxyManagerLease, defaultFile, autoResumeDelay, pending, runCall,
                   autoCall, ret, registry, proxies, wire, groupOffset, pkt, heard, tmpFile,
                   sdPc, sdName, sdOld, cb, status, fatal, app, router, util>>
    /\ osControl' = NoControl
    /\ UNCHANGED <<player, playerPaused, playingName, autoResumeListener, recorder,
                   recorderListener, recordingName, leases, listeners, files, arLast,
                   recStat>>
    /\ RunUnchanged

\* the scheduler wakes for the next event of the round, at or after its time,
\* and emits it, or discards it when it lags by more than MaxLagAge
SchedulerStep ==
    /\ sched.pc = "playing"
    /\ sched.next <= Len(StreamOffsets)
    /\ LET e == EventAt(sched.next)
           target == sched.streamStart + StreamOffsets[e]
       IN  /\ now >= target
           /\ sched' = IF now - target > PlayerMaxLagAge
                       THEN [sched EXCEPT !.next = @ + 1, !.dropped = @ \cup {e}]
                       ELSE [sched EXCEPT !.next = @ + 1,
                                          !.emitted = Append(@, [idx |-> e, time |-> now,
                                                                 start |-> sched.streamStart])]
    /\ UNCHANGED now
    /\ SchedulerUnchanged

\* end of stream: the round is counted, streamStart is reset, the stream
\* restarts from its first event
SchedulerRestart ==
    /\ sched.pc = "playing"
    /\ sched.next > Len(StreamOffsets)
    /\ sched.round < MaxRounds
    /\ sched' = [sched EXCEPT !.round = @ + 1, !.streamStart = now, !.next = 1,
                              !.emitted = <<>>, !.dropped = {},
                              !.roundStart = now, !.pausedTotal = 0]
    /\ UNCHANGED now
    /\ SchedulerUnchanged

\* time passes, while the scheduler sleeps or the host is suspended; the time
\* that passes during a pause is added up for the round
ClockAdvance(d) ==
    /\ now + d <= MaxClock
    /\ now' = now + d
    /\ sched' = IF sched.pc = "paused" THEN [sched EXCEPT !.pausedTotal = @ + d] ELSE sched
    /\ SchedulerUnchanged

InitPlayer ==
    /\ Init
    /\ files = {makeFileForName(NameA)}
    /\ defaultFile = NoFile
    /\ autoResumeDelay = 0

PlayerCalls ==
    {Call("PlayFile", NameA), Call("PauseFile", NoName), Call("ResumeFile", NoName),
     Call("Stop", NoName)}

NextPlayer ==
    \/ RunLoad
    \/ RunMark
    \/ \E call \in PlayerCalls : Enter(call)
    \/ \E c \in Callers, call \in Calls : PlayFileBody(c, call)
    \/ \E c \in Callers, call \in Calls : PauseFileBody(c, call)
    \/ \E c \in Callers, call \in Calls : ResumeFileBody(c, call)
    \/ \E c \in Callers, call \in Calls : StopBody(c, call)
    \/ SchedulerStep
    \/ SchedulerRestart
    \/ \E d \in ClockJumps : ClockAdvance(d)

SpecPlayer == InitPlayer /\ [][NextPlayer]_vars

\* by how much the emitted event e was late: it was due at the streamStart of
\* its emission plus its recorded offset
Lag(e) == e.time - (e.start + StreamOffsets[e.idx])

\* C21: every event the player emits is emitted no earlier than streamStart +
\* offset and no later than streamStart + offset + MaxLagAge; an event whose
\* lag exceeds MaxLagAge when its turn comes is discarded and never emitted.
C21_LagPolicy ==
    /\ [](\A i \in DOMAIN sched.emitted :
            /\ Lag(sched.emitted[i]) >= 0
            /\ Lag(sched.emitted[i]) <= PlaybackMaxLagAge
            /\ sched.emitted[i].idx \notin sched.dropped)
    /\ [][(/\ SchedulerStep
           /\ now - (sched.streamStart + StreamOffsets[sched.next]) > PlaybackMaxLagAge) =>
             /\ sched'.emitted = sched.emitted
             /\ sched'.dropped = sched.dropped \cup {sched.next}]_vars

\* one event was emitted with the largest lag allowed and a later one discarded
C21_Witness ==
    /\ \E i \in DOMAIN sched.emitted : Lag(sched.emitted[i]) = PlaybackMaxLagAge
    /\ sched.dropped # {}
    /\ \A i \in DOMAIN sched.emitted : \A k \in sched.dropped : sched.emitted[i].idx < k

\* C22: within a round the player emits events in stored order; lag drops
\* remove events and never reorder them.
C22_StoredOrder ==
    \A i, j \in DOMAIN sched.emitted :
       i < j => /\ sched.emitted[i].idx < sched.emitted[j].idx
                /\ sched.emitted[i].time <= sched.emitted[j].time

\* the first and the third event were emitted around the discarded second
C22_Witness ==
    /\ Len(sched.emitted) = 2
    /\ sched.emitted[1].idx = 1
    /\ sched.emitted[2].idx = 3
    /\ sched.dropped = {2}

\* C23: while the player is paused it emits no event, and after Resume every
\* remaining event of the round is due at its recorded offset plus the total
\* paused time since the round's start: streamStart is the round's start plus
\* that time, and an event is dropped only when it lags behind that schedule.
C23_PauseShiftsStart ==
    /\ [](sched.pc = "playing" =>
            sched.streamStart = sched.roundStart + sched.pausedTotal)
    /\ [][(Len(sched'.emitted) > Len(sched.emitted)) =>
             /\ sched.pc = "playing" /\ ~playerPaused
             /\ now >= sched.roundStart + sched.pausedTotal + StreamOffsets[sched.next]]_vars
    /\ [][(SchedulerStep /\ sched'.dropped # sched.dropped) =>
             now - (sched.roundStart + sched.pausedTotal + StreamOffsets[sched.next])
                > PlaybackMaxLagAge]_vars

\* two pauses in one round, and an event emitted on time after them although
\* it was due during the pauses
C23_Witness ==
    /\ sched.pc = "playing"
    /\ sched.pausedTotal >= 2
    /\ sched.pauseStart > sched.roundStart + 1
    /\ Len(sched.emitted) = 2
    /\ sched.dropped = {}
    /\ sched.emitted[2].start = sched.roundStart + sched.pausedTotal
    /\ sched.emitted[2].time > sched.roundStart + StreamOffsets[2] + PlaybackMaxLagAge

\* C34: whenever the controller is not running it holds no player, recorder,
\* recorder listener or auto-resume listener and no player lease is held,
\* also when RecordFile, PlayFile or PauseFile runs next to Run's exit.
C34_IdleWhenNotRunning ==
    ~isRunning =>
        /\ player = 0
        /\ ~recorder
        /\ ~recorderListener
        /\ ~autoResumeListener
        /\ \A p \in PlayerIds : leases[p] = 0

\* C38: in every reachable state hasProxyManagerLease is true iff the lease
\* set holds a lease of the controller itself, so a Status that reports
\* DisablingProxyForwarding reports no ProxyForwarding.
C38_FlagMatchesLease ==
    /\ hasProxyManagerLease <=> leases[CtrlHolder] > 0
    /\ hasProxyManagerLease => ~Forwarding

----------------------------------------------------------------------------
(* util.Sleeper, util.Sleep and util.LoopUntil (sleep.go, loopuntil.go) *)

\* the durations a Sleep or a LoopUntil is called with, d <= 0 included
Durations == -1 .. MaxSleep

\* what fn may return
FnResults == {ErrNil, ErrOther}

\* everything the Sleeper and LoopUntil leave alone
UtilUnchanged ==
    /\ UNCHANGED <<hasProxyManagerLease, defaultFile, autoResumeDelay, pending, runCall,
                   autoCall, ret, registry, proxies, wire, groupOffset, pkt, heard, tmpFile,
                   sdPc, sdName, sdOld, now, cb, status, fatal, app, router>>
    /\ osControl' = NoControl
    /\ RunUnchanged
    /\ TaskUnchanged

\* the process has not panicked
Alive == util.closed # Panic

\* no Sleep, util.Sleep or LoopUntil call is in progress
Quiet == Alive /\ util.pc = "idle" /\ util.lpc = "none"

\* a new zero Sleeper (var s Sleeper) for a call by owner with Context c
FreshSleeper(owner, c, d) ==
    [NoUtil EXCEPT !.done = util.done, !.owner = owner, !.c = c, !.d = d]

\* Timer.Stop: a running timer is stopped and will not tick; it reports
\* whether the timer was running
TimerStop(u) == [u EXCEPT !.t = IF @ = "running" THEN "stopped" ELSE @]

\* Sleep returns err to its caller: the client, the deferred Close of
\* util.Sleep (sleep.go:64-67), or the loop of LoopUntil (loopuntil.go:32-34)
SleepReturn(u, err, how) ==
    LET r == [u EXCEPT !.pc = "idle", !.ret = err, !.how = how,
                       !.armed = 0, !.elapsed = 0,
                       !.waited = IF err = ErrNil /\ u.d > 0 THEN u.elapsed ELSE 0]
    IN  CASE u.owner = "loop" ->
                IF err # ErrNil
                THEN [r EXCEPT !.lpc = "defer", !.pendingRet = err]
                ELSE [r EXCEPT !.lpc = "fn"]
          [] u.owner = "shortcut" -> [r EXCEPT !.lpc = "defer", !.pendingRet = err]
          [] OTHER -> r

\* the Context finished first, lines 41-46, without the receive of line 44
SleeperCancel_NoDrain(u) == SleepReturn(TimerStop(u), ErrCanceled, "stopped")

\* the Context finished first, lines 41-46: stop the timer, and when it had
\* already expired receive its tick before returning
SleeperCancel(u) ==
    IF u.t = "running"
    THEN SleepReturn(TimerStop(u), ErrCanceled, "stopped")
    ELSE [u EXCEPT !.pc = "drain"]

\* Sleeper.Close, lines 57-60: s.t.Stop() through a nil s.t panics
SleeperClose(u) ==
    IF u.t = "nil"
    THEN [u EXCEPT !.closed = Panic]
    ELSE [u EXCEPT !.t = "nil", !.C = 0, !.closed = "ok"]

\* a client calls s.Sleep(c, d) on its Sleeper, new or used
SleepCall(c, d) ==
    /\ Quiet
    /\ util' = [util EXCEPT !.pc = "entry", !.owner = "client", !.c = c, !.d = d,
                            !.ret = "none", !.closed = "none",
                            !.prev = util.how]
    /\ UtilUnchanged

\* Sleep, lines 21-31: return at once for d <= 0 and for a cancelled Context
SleepEntry ==
    /\ Alive
    /\ util.pc = "entry"
    /\ util' = IF util.d <= 0 THEN SleepReturn(util, ErrNil, "at once")
               ELSE IF util.c \in util.done THEN SleepReturn(util, ErrCanceled, "at once")
               ELSE [util EXCEPT !.pc = "arm"]
    /\ UtilUnchanged

\* Sleep, lines 33-38: time.NewTimer(d) for a Sleeper without timer, else Reset(d)
SleepArm ==
    /\ Alive
    /\ util.pc = "arm"
    /\ util' = [util EXCEPT !.t = "running", !.armed = util.d, !.elapsed = 0,
                            !.C = IF util.t = "nil" THEN 0 ELSE @,
                            !.pc = "wait"]
    /\ UtilUnchanged

\* Sleep, lines 48-50: the select receives the timer's tick
SleepTick ==
    /\ Alive
    /\ util.pc = "wait"
    /\ util.C = 1
    /\ util' = SleepReturn([util EXCEPT !.C = 0], ErrNil, "expired")
    /\ UtilUnchanged

\* Sleep, lines 41-46: the select takes c.Done()
SleepDone ==
    /\ Alive
    /\ util.pc = "wait"
    /\ util.c \in util.done
    /\ util' = SleeperCancel(util)
    /\ UtilUnchanged

\* Sleep, line 44: <-s.t.C after a Stop that came too late
SleepDrain ==
    /\ Alive
    /\ util.pc = "drain"
    /\ util.C = 1
    /\ util' = SleepReturn([util EXCEPT !.C = 0], ErrCanceled, "drained")
    /\ UtilUnchanged

\* the runtime: a running timer expires no earlier than after its duration
\* and puts one tick into its channel of capacity one
TimerFire ==
    /\ Alive
    /\ util.t = "running"
    /\ util.elapsed >= util.armed
    /\ util' = [util EXCEPT !.t = "expired", !.C = 1]
    /\ UtilUnchanged

\* time passes while a timer runs
TimePasses ==
    /\ Alive
    /\ util.t = "running"
    /\ util.elapsed < MaxSleep
    /\ util' = [util EXCEPT !.elapsed = @ + 1]
    /\ UtilUnchanged

\* somebody cancels the Context c
ContextCancel(c) ==
    /\ Alive
    /\ c \notin util.done
    /\ util' = [util EXCEPT !.done = @ \cup {c},
                            !.cancelledInFirst =
                                @ \/ (util.lpc = "infn" /\ util.calls = 1 /\ util.c = c)]
    /\ UtilUnchanged

\* a client calls s.Close() between two Sleep calls or after the last
ClientClose ==
    /\ Quiet
    /\ util.owner = "client"
    /\ util' = SleeperClose(util)
    /\ UtilUnchanged

\* util.Sleep(c, d), lines 63-68: a Sleeper of its own, Close deferred
UtilSleepCall(c, d) ==
    /\ Quiet
    /\ util' = [FreshSleeper("shortcut", c, d) EXCEPT !.pc = "entry", !.lpc = "sleep"]
    /\ UtilUnchanged

\* the deferred s.Close() of util.Sleep (line 65) and of LoopUntil
\* (loopuntil.go:23): the call returns what it was about to return unless
\* Close panics
DeferredClose ==
    /\ Alive
    /\ util.lpc = "defer"
    /\ LET r == SleeperClose(util)
       IN  util' = [r EXCEPT !.lpc = "none",
                             !.out = IF r.closed = Panic THEN Panic ELSE util.pendingRet]
    /\ UtilUnchanged

\* LoopUntil(c, p, fn) is called
LoopUntilCall(c, p) ==
    /\ Quiet
    /\ util' = [FreshSleeper("loop", c, p) EXCEPT
                    !.lpc = "start", !.startedCancelled = c \in util.done]
    /\ UtilUnchanged

\* loopuntil.go:15-20: does the Context start cancelled?
LoopUntilStart ==
    /\ Alive
    /\ util.lpc = "start"
    /\ util' = IF util.c \in util.done
               THEN [util EXCEPT !.lpc = "none", !.out = ErrCanceled]
               ELSE [util EXCEPT !.lpc = "fn"]
    /\ UtilUnchanged

\* loopuntil.go:27: fn(c) is called
LoopUntilFnCall ==
    /\ Alive
    /\ util.lpc = "fn"
    /\ util.calls < MaxCalls
    /\ util' = [util EXCEPT !.lpc = "infn", !.calls = @ + 1,
                            !.lateCall = @ \/ (util.calls >= 1 /\ util.c \in util.done)]
    /\ UtilUnchanged

\* loopuntil.go:27-34: fn returns err; an error ends the loop, else s.Sleep(c, p)
LoopUntilFnReturn(err) ==
    /\ Alive
    /\ util.lpc = "infn"
    /\ util' = IF err # ErrNil
               THEN [util EXCEPT !.fnErr = err, !.lpc = "defer", !.pendingRet = err]
               ELSE [util EXCEPT !.fnErr = err, !.lpc = "sleep", !.pc = "entry",
                                 !.ret = "none", !.prev = util.how]
    /\ UtilUnchanged

NextSleeper ==
    \/ \E c \in Contexts, d \in Durations : SleepCall(c, d)
    \/ SleepEntry
    \/ SleepArm
    \/ SleepTick
    \/ SleepDone
    \/ SleepDrain
    \/ TimerFire
    \/ TimePasses
    \/ \E c \in Contexts : ContextCancel(c)
    \/ ClientClose
    \/ \E c \in Contexts, d \in Durations : UtilSleepCall(c, d)
    \/ DeferredClose
    \/ \E c \in Contexts, p \in Durations : LoopUntilCall(c, p)
    \/ LoopUntilStart
    \/ LoopUntilFnCall
    \/ \E err \in FnResults : LoopUntilFnReturn(err)

\* no file, no default file, no call made yet
InitSleeper ==
    /\ Init
    /\ files = {}
    /\ defaultFile = NoFile
    /\ autoResumeDelay = 0

SpecSleeper == InitSleeper /\ [][NextSleeper]_vars

\* a Sleep, util.Sleep or LoopUntil call came back, or panicked on the way
Returned == util.pc = "idle" /\ util.lpc = "none" /\ util.owner # "none"

\* C40: a reused Sleeper never returns early because of a stale tick: the
\* timer's channel is empty at every entry to Sleep and when the timer is
\* armed, whether the previous Sleep ended by expiry or by cancellation, and a
\* Sleep that returns nil for d > 0 has waited for d.
C40_NoStaleTick ==
    /\ util.pc \in {"idle", "entry", "arm"} => util.C = 0
    /\ util.pc = "idle" => util.t # "running"
    /\ (util.ret = ErrNil /\ util.d > 0) => util.waited >= util.d

\* a Sleeper whose previous Sleep was cancelled after its timer had expired,
\* so that the tick was received at line 44, sleeps again with a live Context
\* and returns nil after the whole duration
C40_Witness ==
    /\ util.owner = "client"
    /\ util.pc = "idle"
    /\ util.done # {} /\ util.c \notin util.done
    /\ util.prev = "drained"
    /\ util.ret = ErrNil /\ util.d = MaxSleep /\ util.waited = MaxSleep

\* C31: Sleeper.Sleep(c, d) and util.Sleep(c, d) return nil at once when
\* d <= 0, return nil once d has elapsed, and return the Context's error only
\* when the Context is cancelled; closing the Sleeper afterwards succeeds, so
\* util.Sleep returns what its Sleep returned.
C31_SleepContract ==
    /\ (util.ret # "none" /\ util.d <= 0) =>
           util.ret = ErrNil /\ util.how = "at once"
    /\ (util.ret = ErrNil /\ util.d > 0) =>
           util.how = "expired" /\ util.waited >= util.d
    /\ util.ret = ErrCanceled => util.c \in util.done
    /\ util.closed # Panic
    /\ (util.owner = "shortcut" /\ util.lpc = "none") => util.out = util.ret

\* C32: LoopUntil(c, p, fn) does not call fn when the Context starts
\* cancelled; it calls fn again only after a Sleep of p; when it returns it
\* returns fn's error if fn returned one, on the first call too, and else the
\* Context's cancellation error, also when the Context was cancelled during
\* the first call of fn.
C32_LoopUntilContract ==
    /\ (util.owner = "loop" /\ util.startedCancelled) => util.calls = 0
    /\ (util.owner = "loop" /\ util.lpc = "infn" /\ util.calls > 1) =>
           util.ret = ErrNil /\ util.waited >= util.d
    /\ (util.owner = "loop" /\ Returned) =>
           /\ util.fnErr # ErrNil => util.out = util.fnErr
           /\ util.fnErr = ErrNil =>
                  util.out = ErrCanceled /\ util.c \in util.done

\* the devices the Router can target: the real devices of the registry and
\* the proxy devices made for them
RegistryDevices ==
    {DeviceHeaders(m) : m \in {r \in RealMacs : registry[r] # Absent}}
        \cup ProxyDevices(proxies)

\* C33: at every instant the registry holds at most one device per valid
\* (group, controller) ordinal, real devices and their proxy devices counted
\* together, whatever the group offset is.
C33_OnePerOrdinal ==
    \A d1, d2 \in RegistryDevices :
        (/\ IsValid(Ordinal(d1.group, d1.controller))
         /\ d1.group = d2.group
         /\ d1.controller = d2.controller) => d1 = d2

\* C35: an auto-resume callback resumes only the pause that armed its
\* listener. A listener calls back only after it has seen a packet, so when
\* the callback's ResumeFile stops a listener or resumes a paused player, the
\* listener it finds has seen a packet: it is not one that a later PauseFile
\* armed after Stop, PlayFile, RecordFile or ResumeFile ended the first pause.
C35_CallbackOwnPause ==
    [][(/\ autoResumeListener \/ (player # 0 /\ playerPaused)
        /\ ResumeFileBody(AutoCaller, Call("ResumeFile", NoName))) =>
          /\ autoResumeListener
          /\ arLast # NoPacket]_vars

\* C36: a recorder-listener call acts only on the recording that attached
\* it; in particular a call still in flight when that recording is stopped
\* finds no missing recorder: whenever the callback reaches RecordPacket,
\* ctrl.recorder is set and the call does not panic.
C36_CallbackOwnRecording ==
    [][\A outcome \in RecordOutcomes :
          RecorderListenerRecord(outcome) => (recorder /\ ret' # Panic)]_vars

----------------------------------------------------------------------------
(* PlayFile step by step, next to the proxy devices' receive path *)

\* a PlayFile call that holds the mutex and has stopped the current task;
\* replacing tells whether a player was playing when the call took the mutex
Opening(name, replacing) ==
    [op |-> IF replacing THEN "PlayFile replacing" ELSE "PlayFile opening", name |-> name]

\* some PlayFile call holds the mutex
MutexHeld == \E n \in FileNames, r \in BOOLEAN : BagIn(Opening(n, r), pending)

\* the variables a step of PlayFile leaves alone before it returns
PlayFileUnchanged ==
    /\ UNCHANGED <<runCall, autoCall, runPc, isRunning, ctx, systemControl, runDefault,
                   cancelled, hasProxyManagerLease, defaultFile, autoResumeDelay>>
    /\ NetUnchanged
    /\ osControl' = NoControl

\* PlayFile, lines 454-457: take the mutex and stop the current task; the
\* old player releases its lease
PlayFileStop(call) ==
    /\ call.op = "PlayFile"
    /\ BagIn(call, pending)
    /\ ~MutexHeld
    /\ Commit(stopTaskLocked(Cur))
    /\ pending' = (pending (-) SetToBag({call})) (+) SetToBag({Opening(call.name, player # 0)})
    /\ UNCHANGED ret
    /\ PlayFileUnchanged

\* PlayFile, lines 459-480: open the stream, make the player and start it;
\* the new player acquires its lease; the mutex is released
PlayFileOpen(name, replacing) ==
    /\ BagIn(Opening(name, replacing), pending)
    /\ Commit(PlayFileOpenLocked(Cur, name))
    /\ ret' = IF OpenReaderOk(files, name) THEN ErrNil ELSE ErrOther
    /\ pending' = pending (-) SetToBag({Opening(name, replacing)})
    /\ PlayFileUnchanged

\* Stop, when no PlayFile call holds the mutex
StopWhenFree(c, call) ==
    /\ ~MutexHeld
    /\ StopBody(c, call)

ReplaceCalls == {Call("PlayFile", NameA), Call("PlayFile", NameB), Call("Stop", NoName)}

NextReplace ==
    \/ RunLoad
    \/ RunMark
    \/ \E call \in ReplaceCalls : Enter(call)
    \/ \E call \in ReplaceCalls : PlayFileStop(call)
    \/ \E name \in FileNames, replacing \in BOOLEAN : PlayFileOpen(name, replacing)
    \/ \E c \in Callers, call \in Calls : StopWhenFree(c, call)
    \/ \E addOk \in BOOLEAN : ListenerReceive(DeviceHeaders(Device1), addOk)
    \/ ProxyReceive(Device1)
    \/ DiscoveryBroadcast
    \/ SweeperTick
    \/ Expire(Device1)

SpecReplace == InitPlayer /\ [][NextReplace]_vars

\* C37: when PlayFile is called while another file is playing and the new
\* file opens, forwarding stays disabled throughout the call: from the moment
\* the old player is stopped until the new one plays, forwarding is off and no
\* packet that arrives at a proxy is forwarded to the real device.
C37_NoForwardingGap ==
    /\ [](\A n \in FileNames :
            (BagIn(Opening(n, TRUE), pending) /\ OpenReaderOk(files, n)) => ~Forwarding)
    /\ [][\A n \in FileNames :
            (/\ BagIn(Opening(n, TRUE), pending)
             /\ OpenReaderOk(files, n)
             /\ ProxyReceive(Device1)) => ~pkt'.forwarded]_vars

====
